---- MODULE Spec2Model ----
(***************************************************************************)
(* A model of the OpenAI provider layer of gemini-cli:                     *)
(*   packages/core/src/core/openaiClient.ts                                *)
(*     FormatMapper            (pure converters)                           *)
(*     OpenAIContentGenerator  (HTTP requests, SSE stream decoding)        *)
(*                                                                         *)
(* JavaScript values are modelled as follows.  An object is a record; a    *)
(* property that is undefined is a field that is absent from the record.   *)
(* A string is a TLA+ string (Len and \o are its length and                *)
(* concatenation); a byte stream is a sequence of one-character strings.   *)
(* An array is a sequence.                                                 *)
(***************************************************************************)
EXTENDS Integers, Sequences, FiniteSets, TLC

\* ------------------------------------------------------------------ bounds
\* The longest Native content list the harness builds.
MaxContents == 2
\* The number of parts in the whole list.
MaxParts == 3
\* The number of frames (lines) a server sends on one stream.
MaxFrames == 3
\* The number of changes made to the environment and the configuration files.
MaxChanges == 2

VARIABLES
    \* --- FormatMapper / countTokens on a Native content list
    mpc,        \* "build", "mapped", "back", "counted"
    contents,   \* Content[]: the input (request.contents)
    messages,   \* OpenAIMessage[]: geminiToOpenAI(contents)
    native,     \* Content[]: openAIToGemini(messages)
    tokens,     \* CountTokensResponse
    \* --- FormatMapper on a response of the server
    rpc,        \* "idle", "universal", "gemini"
    response,   \* the parsed response body handed to the mapper
    universal,  \* UniversalResponse: openAIToUniversal(response)
    generated,  \* GenerateContentResponse: openAIResponseToGemini(response)
    \* --- generateContentStream: one record per streaming call
    calls,      \* [CallIds -> the call's generator state], see IdleCall
    \* --- OpenAIContentGenerator: construction and one request
    generator,  \* the instance: state "none", "constructed" or "threw", and the
                \* config the constructor was given
    hpc,        \* "idle", "created" (a stream's generators exist, nothing has
                \* run), "awaiting" (await fetch), "settled"
    request,    \* the arguments of the fetch call: method, url, headers, body
    httpResponse, \* what fetch resolved with
    outcome,    \* what the method returned or threw
    fetchCalls, \* the number of calls of the global fetch so far
    \* --- model configuration: ModelConfigManager and tokenLimit
    processEnv, \* process.env: environment key -> value
    files,      \* directory -> its models.json and its .env
    manager,    \* the ModelConfigManager: modelOverrides, tokenLimits, isInitialized
    lookup,     \* the last call of getTokenLimit or tokenLimit and its result
    changes     \* how many times the environment or a file has been changed

mapperVars == <<mpc, contents, messages, native, tokens>>
responseVars == <<rpc, response, universal, generated>>
httpVars == <<generator, hpc, request, httpResponse, outcome>>
configVars == <<processEnv, files, manager, lookup, changes>>
vars == <<mapperVars, responseVars, calls, httpVars, fetchCalls, configVars>>

\* ------------------------------------------------------------ JS helpers
Has(o, f) == f \in DOMAIN o

\* A record holding field r only when c holds ({...(c ? r : {})}).
Opt(c, r) == IF c THEN r ELSE <<>>

\* Array.prototype.join(sep) on an array of strings.
RECURSIVE join(_, _)
join(strs, sep) ==
    IF strs = <<>> THEN ""
    ELSE IF Len(strs) = 1 THEN strs[1]
    ELSE strs[1] \o sep \o join(Tail(strs), sep)

\* {} and every {f: v}, v in S: a property that may be left out.
OptField(f, S) == {<<>>} \cup {[x \in {f} |-> v] : v \in S}

\* -------------------------------------------------- states before any call
MapperIdle ==
    /\ mpc = "build"
    /\ contents = <<>>
    /\ messages = <<>>
    /\ native = <<>>
    /\ tokens = [totalTokens |-> 0]

ResponseIdle ==
    /\ rpc = "idle"
    /\ response = <<>>
    /\ universal = <<>>
    /\ generated = <<>>

\* The streaming calls the model follows.
CallIds == {1, 2}

\* A streaming call nobody has made: no generator, no reader.
\*   pc      where the call's generators stand: "unused", "idle" (not called),
\*           "created" (generateContentStream returned, nothing has run),
\*           "fetching" (await fetch), "reading" (await reader.read()),
\*           "lines" (in the for loop over lines), "yielded" (the consumer
\*           holds a partial response), "done", "failed", "returned"
\*   sent    the frames the server sends, stream their bytes, pos how many of
\*           them the reader has delivered
\*   response  what fetch resolved with, <<>> before it has
\*   reader  "none", "locked" (getReader) or "released" (releaseLock)
\*   buffer, lines, accumulatedContent   the generators' local variables
\*   emitted the partial responses the consumer has received
\*   error   what the sequence threw, "" while it has thrown nothing
IdleCall ==
    [pc |-> "idle", response |-> <<>>, sent |-> <<>>, stream |-> <<>>, pos |-> 0,
     reader |-> "none",
     buffer |-> <<>>, lines |-> <<>>, accumulatedContent |-> "", emitted |-> <<>>,
     error |-> ""]

StreamIdle == calls = [c \in CallIds |-> [IdleCall EXCEPT !.pc = "unused"]]

\* No generator has been constructed, no request made.
HttpIdle ==
    /\ generator = [state |-> "none"]
    /\ hpc = "idle"
    /\ request = <<>>
    /\ httpResponse = <<>>
    /\ outcome = <<>>

\* The directories of the model; process.cwd().
Dirs == {"a", "b"}

Cwd == "a"

DEFAULT_MODEL_VALUES ==
    [DEFAULT_GEMINI_MODEL |-> "gemini-2.5-pro",
     DEFAULT_GEMINI_FLASH_MODEL |-> "gemini-2.5-flash",
     DEFAULT_GEMINI_FLASH_LITE_MODEL |-> "gemini-2.5-flash-lite",
     DEFAULT_GEMINI_EMBEDDING_MODEL |-> "gemini-embedding-001"]

DEFAULT_TOKEN_LIMITS ==
    "gemini-1.5-pro" :> 2097152 @@
    "gemini-1.5-flash" :> 1048576 @@
    "gemini-2.5-pro-preview-05-06" :> 1048576 @@
    "gemini-2.5-pro-preview-06-05" :> 1048576 @@
    "gemini-2.5-pro" :> 1048576 @@
    "gemini-2.5-flash-preview-05-20" :> 1048576 @@
    "gemini-2.5-flash" :> 1048576 @@
    "gemini-2.5-flash-lite" :> 1048576 @@
    "gemini-2.0-flash" :> 1048576 @@
    "gemini-2.0-flash-preview-image-generation" :> 32000 @@
    "gpt-4" :> 128000 @@
    "gpt-4-turbo" :> 128000 @@
    "gpt-4-turbo-preview" :> 128000 @@
    "gpt-4.1" :> 128000 @@
    "gpt-3.5-turbo" :> 16384 @@
    "gpt-3.5-turbo-16k" :> 16384 @@
    "gpt-4.1-mini" :> 16384 @@
    "gpt-4-32k" :> 32768 @@
    "gpt-4o" :> 128000 @@
    "claude-3-opus" :> 200000 @@
    "claude-3-sonnet" :> 200000 @@
    "claude-3-haiku" :> 200000 @@
    "claude-3.5-sonnet" :> 200000 @@
    "claude-4-sonnet" :> 200000 @@
    "llama-3.1-8b" :> 128000 @@
    "llama-3.1-70b" :> 128000 @@
    "llama-3.1-405b" :> 128000 @@
    "llama-3.2-1b" :> 128000 @@
    "llama-3.2-3b" :> 128000 @@
    "llama-3.3-8b" :> 128000 @@
    "llama-3.3-70b" :> 128000

\* A directory with no models.json and no .env.
NoFiles == [json |-> [exists |-> FALSE], env |-> [exists |-> FALSE]]

\* new ModelConfigManager()
NewManager ==
    [modelOverrides |-> DEFAULT_MODEL_VALUES,
     tokenLimits |-> DEFAULT_TOKEN_LIMITS,
     isInitialized |-> FALSE]

\* A fresh process: nothing in the environment that the configuration reads,
\* no configuration file, the manager made and not initialized.
ConfigIdle ==
    /\ processEnv = <<>>
    /\ files = [d \in Dirs |-> NoFiles]
    /\ manager = NewManager
    /\ lookup = [op |-> "none"]
    /\ changes = 0

\* ---------------------------------------------------------- input domains
Roles == {"user", "model", "system"}

\* A Part: a text part (the empty text included) or a part of another kind.
Parts == {[text |-> ""], [text |-> "a"], [text |-> "bc"], [inlineData |-> "img"]}

ModelNames == {"gpt-4", "gpt-3.5-turbo"}

\* --------------------------------------------------------- FormatMapper
\* part => part.text  (as a filter predicate: undefined and "" are falsy)
TextTruthy(part) == Has(part, "text") /\ part.text # ""

\* content.parts?.filter(part => part.text) || []
TextParts(content) ==
    IF Has(content, "parts") THEN SelectSeq(content.parts, TextTruthy) ELSE <<>>

\* textParts.map(part => part.text)
Texts(parts) == [i \in 1..Len(parts) |-> parts[i].text]

geminiToOpenAI_Spaced(cs) ==
    [i \in 1..Len(cs) |->
        [role |-> IF cs[i].role = "model" THEN "assistant" ELSE cs[i].role,
         content |-> join(Texts(TextParts(cs[i])), " ")]]

geminiToOpenAI(cs) ==
    [i \in 1..Len(cs) |->
        LET content == cs[i]
            role == IF content.role = "model" THEN "assistant" ELSE content.role
            textParts == TextParts(content)
            content_text == join(Texts(textParts), "")
        IN  [role |-> role, content |-> content_text]]

openAIToGemini_NoRename(msgs) ==
    [i \in 1..Len(msgs) |->
        [role |-> msgs[i].role, parts |-> <<[text |-> msgs[i].content]>>]]

openAIToGemini(msgs) ==
    [i \in 1..Len(msgs) |->
        LET msg == msgs[i]
        IN  [role |-> IF msg.role = "assistant" THEN "model" ELSE msg.role,
             parts |-> <<[text |-> msg.content]>>]]

\* ----------------------------------------------------------- countTokens
\* content.parts?.map(part => part.text).join('') || '' : join renders an
\* undefined text as "".
RECURSIVE PartsText(_)
PartsText(parts) ==
    IF parts = <<>> THEN ""
    ELSE (IF Has(parts[1], "text") THEN parts[1].text ELSE "") \o PartsText(Tail(parts))

\* contents.map(content => ...) of countTokens
ContentTexts(cs) ==
    [i \in 1..Len(cs) |-> IF Has(cs[i], "parts") THEN PartsText(cs[i].parts) ELSE ""]

\* Math.ceil(n / 4) for an integer n >= 0
CeilDiv4(n) == (n + 3) \div 4

countTokens_Floor(model, cs) ==
    [totalTokens |-> Len(join(ContentTexts(cs), " ")) \div 4]

countTokens(model, cs) ==
    LET text == join(ContentTexts(cs), " ")
        approximateTokens == CeilDiv4(Len(text))
    IN  [totalTokens |-> approximateTokens]

\* ----------------------------------------- FormatMapper on responses
\* The message of a choice: content and function_call are optional.
OpenAIMessages ==
    {[role |-> "assistant"] @@ c @@ f :
        c \in OptField("content", {"", "Hello!"}),
        f \in OptField("function_call", {[name |-> "get_time", arguments |-> "{}"]})}

\* A choice: message, finish_reason and index are optional (a compatible
\* server may leave any of them out).
OpenAIChoices ==
    {m @@ fr @@ ix :
        m \in OptField("message", OpenAIMessages),
        fr \in OptField("finish_reason", {"stop", "length"}),
        ix \in OptField("index", {0, 1})}

\* A second choice, which no mapper reads.
OtherChoice ==
    [message |-> [role |-> "assistant", content |-> "other"],
     finish_reason |-> "content_filter", index |-> 1]

ChoiceLists ==
    {<<>>} \cup {<<c>> : c \in OpenAIChoices} \cup {<<c, OtherChoice>> : c \in OpenAIChoices}

OpenAIUsages ==
    {[prompt_tokens |-> 10, completion_tokens |-> 15, total_tokens |-> 25],
     [prompt_tokens |-> 0, completion_tokens |-> 0, total_tokens |-> 0]}

\* OpenAIResponse as openAIToUniversal takes it (id, object, created and model
\* are read by no mapper and are left out).
OpenAIResponses ==
    {[choices |-> cl] @@ u : cl \in ChoiceLists, u \in OptField("usage", OpenAIUsages)}

\* The message property of a legacy envelope: an array of messages or one
\* message object; isArray is what Array.isArray answers for it.
LegacyMessages ==
    {[isArray |-> TRUE, items |-> <<>>]}
    \cup {[isArray |-> TRUE, items |-> <<m>>] : m \in OpenAIMessages}
    \cup {[isArray |-> FALSE, value |-> m] : m \in OpenAIMessages}

\* What openAIResponseToGemini is given (OpenAIResponse | any): any of
\* choices, message and usage present or not.
AnyResponses ==
    {cl @@ lm @@ u :
        cl \in OptField("choices", {<<>>} \cup {<<c>> : c \in OpenAIChoices}),
        lm \in OptField("message", LegacyMessages),
        u \in OptField("usage", {[prompt_tokens |-> 10, completion_tokens |-> 15,
                                  total_tokens |-> 25]})}

\* choice?.message?.content || ''
ChoiceContent(choice) ==
    IF Has(choice, "message") /\ Has(choice.message, "content")
    THEN choice.message.content ELSE ""

openAIToUniversal_EmptyList(resp) ==
    LET hasChoice == Len(resp.choices) >= 1
        choice == IF hasChoice THEN resp.choices[1] ELSE <<>>
    IN  [content |-> ChoiceContent(choice),
         functionCalls |->
            IF Has(choice, "message") /\ Has(choice.message, "function_call")
            THEN <<[name |-> choice.message.function_call.name,
                    arguments |-> choice.message.function_call.arguments]>>
            ELSE <<>>]
        @@ Opt(Has(choice, "finish_reason"), [finishReason |-> choice.finish_reason])
        @@ Opt(Has(resp, "usage"),
               [usage |-> [promptTokens |-> resp.usage.prompt_tokens,
                           completionTokens |-> resp.usage.completion_tokens,
                           totalTokens |-> resp.usage.total_tokens]])

\* An undefined choice (choices[0] of an empty array) is the record with no
\* field: every choice?.x of it is undefined.
openAIToUniversal(resp) ==
    LET choice == IF Len(resp.choices) >= 1 THEN resp.choices[1] ELSE <<>>
    IN  [content |-> ChoiceContent(choice)]
        @@ Opt(Has(choice, "finish_reason"), [finishReason |-> choice.finish_reason])
        @@ Opt(Has(resp, "usage"),
               [usage |-> [promptTokens |-> resp.usage.prompt_tokens,
                           completionTokens |-> resp.usage.completion_tokens,
                           totalTokens |-> resp.usage.total_tokens]])
        @@ Opt(Has(choice, "message") /\ Has(choice.message, "function_call"),
               [functionCalls |->
                    <<[name |-> choice.message.function_call.name,
                       arguments |-> choice.message.function_call.arguments]>>])

\* The choice and content openAIResponseToGemini settles on, by envelope.
GeminiChoice(resp) ==
    IF Has(resp, "choices") /\ Len(resp.choices) >= 1
    THEN [choice |-> resp.choices[1], content |-> ChoiceContent(resp.choices[1])]
    ELSE IF Has(resp, "message") /\ resp.message.isArray /\ Len(resp.message.items) >= 1
    THEN LET message == resp.message.items[1]
         IN  [choice |-> [message |-> message, finish_reason |-> "stop", index |-> 0],
              content |-> IF Has(message, "content") THEN message.content ELSE ""]
    ELSE IF Has(resp, "message") /\ ~resp.message.isArray
    THEN [choice |-> [message |-> resp.message.value, finish_reason |-> "stop", index |-> 0],
          content |-> IF Has(resp.message.value, "content")
                      THEN resp.message.value.content ELSE ""]
    ELSE [choice |-> <<>>, content |-> ""]

openAIResponseToGemini(resp) ==
    LET choice == GeminiChoice(resp).choice
        content == GeminiChoice(resp).content
    IN  [candidates |->
            <<[content |-> [role |-> "model", parts |-> <<[text |-> content]>>],
               finishReason |-> IF Has(choice, "finish_reason") /\ choice.finish_reason # ""
                                THEN choice.finish_reason ELSE "STOP",
               index |-> IF Has(choice, "index") THEN choice.index ELSE 0]>>]
        @@ Opt(Has(resp, "usage"),
               [usageMetadata |-> [promptTokenCount |-> resp.usage.prompt_tokens,
                                   candidatesTokenCount |-> resp.usage.completion_tokens,
                                   totalTokenCount |-> resp.usage.total_tokens]])

OpenAIToUniversal(resp) ==
    /\ rpc = "idle"
    /\ response' = resp
    /\ universal' = openAIToUniversal(resp)
    /\ rpc' = "universal"
    /\ UNCHANGED <<configVars, generated, mapperVars, calls, httpVars, fetchCalls>>

OpenAIResponseToGemini(resp) ==
    /\ rpc = "idle"
    /\ response' = resp
    /\ generated' = openAIResponseToGemini(resp)
    /\ rpc' = "gemini"
    /\ UNCHANGED <<configVars, universal, mapperVars, calls, httpVars, fetchCalls>>

ResponseInit == MapperIdle /\ ResponseIdle /\ StreamIdle /\ HttpIdle /\ fetchCalls = 0 /\ ConfigIdle

ResponseNext ==
    \/ \E resp \in OpenAIResponses : OpenAIToUniversal(resp)
    \/ \E resp \in AnyResponses : OpenAIResponseToGemini(resp)

SpecResponse == ResponseInit /\ [][ResponseNext]_vars

\* ------------------------------------------------------------ SSE frames
\* The bytes of a stream are one-character strings (the stream is ASCII, so
\* TextDecoder gives one character per byte).  The bytes of a JSON payload are
\* symbols: "{" and "}" delimit an object and one symbol between them stands for
\* the text of its properties.
NL == "\n"
DataPrefix == <<"d", "a", "t", "a", ":", " ">>
DoneMark == <<"[", "D", "O", "N", "E", "]">>

\* The lines a server sends, by kind.
Line(kind) ==
    CASE kind = "hel" -> DataPrefix \o <<"{", "H", "}">>
      [] kind = "lo" -> DataPrefix \o <<"{", "L", "}">>
      [] kind = "finish" -> DataPrefix \o <<"{", "F", "}">>
      [] kind = "nochoice" -> DataPrefix \o <<"{", "E", "}">>
      [] kind = "object" -> DataPrefix \o <<"{", "}">>
      [] kind = "malformed" -> DataPrefix \o <<"{", "H">>
      [] kind = "done" -> DataPrefix \o DoneMark
      [] kind = "blank" -> <<>>
      [] kind = "crlf" -> DataPrefix \o <<"{", "L", "}", "\r">>
      [] kind = "comment" -> <<":", "k">>

\* JSON.parse(data): the parsed value, or ok = FALSE for a SyntaxError.
\*   {H} {"choices":[{"delta":{"content":"Hel"},"index":0}]}
\*   {L} {"choices":[{"delta":{"content":"lo"},"index":0}]}
\*   {F} {"choices":[{"delta":{},"index":0,"finish_reason":"stop"}]}
\*   {E} {"choices":[]}
\*   {}  {}
JSONParse(data) ==
    IF data = <<"{", "H", "}">>
    THEN [ok |-> TRUE,
          value |-> [choices |-> <<[delta |-> [content |-> "Hel"], index |-> 0]>>]]
    ELSE IF data = <<"{", "L", "}">>
    THEN [ok |-> TRUE,
          value |-> [choices |-> <<[delta |-> [content |-> "lo"], index |-> 0]>>]]
    ELSE IF data = <<"{", "F", "}">>
    THEN [ok |-> TRUE,
          value |-> [choices |-> <<[delta |-> <<>>, index |-> 0, finish_reason |-> "stop"]>>]]
    ELSE IF data = <<"{", "E", "}">>
    THEN [ok |-> TRUE, value |-> [choices |-> <<>>]]
    ELSE IF data = <<"{", "}">>
    THEN [ok |-> TRUE, value |-> <<>>]
    ELSE [ok |-> FALSE]

\* The bytes of a sequence of frames, each ended by a newline.
RECURSIVE Bytes(_)
Bytes(frames) ==
    IF frames = <<>> THEN <<>> ELSE Line(frames[1]) \o <<NL>> \o Bytes(Tail(frames))

\* The frames a server sends on the streams of the model.
FrameKinds == {"hel", "lo", "malformed", "done", "blank", "object"}

FrameSeqs == UNION {[1..n -> FrameKinds] : n \in 0..MaxFrames}

\* ------------------------------------------- responses that are not ok
ApiError == "OpenAI API error"

\* The body of a response that is not ok, as response.json() finds it:
\*   json = FALSE        not JSON: json() rejects
\*   isNull = TRUE       the JSON text null
\*   value               a JSON object
ErrorBodies ==
    {[json |-> FALSE],
     [json |-> TRUE, isNull |-> TRUE],
     [json |-> TRUE, isNull |-> FALSE, value |-> <<>>],
     [json |-> TRUE, isNull |-> FALSE, value |-> [error |-> <<>>]],
     [json |-> TRUE, isNull |-> FALSE, value |-> [error |-> [message |-> ""]]],
     [json |-> TRUE, isNull |-> FALSE, value |-> [error |-> [message |-> "Invalid request"]]]}

ErrorStatuses ==
    {[status |-> 400, statusText |-> "Bad Request"],
     [status |-> 401, statusText |-> "Unauthorized"],
     [status |-> 503, statusText |-> "Service Unavailable"]}

Threw(name, message) == [kind |-> "threw", name |-> name, message |-> message]

Returned(value) == [kind |-> "returned", value |-> value]

\* What makeRequest and makeStreamRequest do with a response that is not ok:
\*   errorData = await response.json().catch(() => ({}))
\*   throw new Error(`OpenAI API error: ... ${errorData.error?.message || ''}`)
\* errorData.error of null is a TypeError.
notOk(resp) ==
    LET errorData == IF resp.body.json /\ ~resp.body.isNull THEN resp.body.value ELSE <<>>
        message == IF Has(errorData, "error") /\ Has(errorData.error, "message")
                   THEN errorData.error.message ELSE ""
    IN  IF resp.body.json /\ resp.body.isNull
        THEN Threw("TypeError", "Cannot read properties of null (reading 'error')")
        ELSE Threw("Error",
                   ApiError \o ": " \o ToString(resp.status) \o " "
                   \o resp.statusText \o ". " \o message)

\* ------------------------------------------------------- string methods
\* buffer.split('\n'): the pieces between the newlines, one more than there
\* are newlines.
split(str) ==
    LET at == SelectSeq([i \in 1..Len(str) |-> i], LAMBDA i : str[i] = NL)
        n == Len(at)
    IN  [j \in 1..(n + 1) |->
            SubSeq(str, IF j = 1 THEN 1 ELSE at[j - 1] + 1,
                        IF j = n + 1 THEN Len(str) ELSE at[j] - 1)]

WhiteSpace == {" ", "\n", "\r", "\t"}

\* line.trim()
RECURSIVE trim(_)
trim(str) ==
    IF str = <<>> THEN str
    ELSE IF str[1] \in WhiteSpace THEN trim(Tail(str))
    ELSE IF str[Len(str)] \in WhiteSpace THEN trim(SubSeq(str, 1, Len(str) - 1))
    ELSE str

\* trimmed.startsWith(prefix)
startsWith(str, prefix) ==
    Len(str) >= Len(prefix) /\ SubSeq(str, 1, Len(prefix)) = prefix

\* ------------------------------------------- convertStreamToGeminiFormat
\* One turn of the for-await loop on a chunk makeStreamRequest yielded:
\*   "throw"  chunk.choices is undefined, chunk.choices[0] is a TypeError
\*   "skip"   no first choice: continue
\*   "yield"  the partial response
convertChunk(chunk) ==
    IF ~Has(chunk, "choices") THEN [kind |-> "throw"]
    ELSE IF chunk.choices = <<>> THEN [kind |-> "skip"]
    ELSE LET choice == chunk.choices[1]
             deltaContent == IF Has(choice, "delta") /\ Has(choice.delta, "content")
                             THEN choice.delta.content ELSE ""
         IN  [kind |-> "yield",
              deltaContent |-> deltaContent,
              result |->
                [candidates |->
                    <<[content |-> [role |-> "model", parts |-> <<[text |-> deltaContent]>>],
                       index |-> IF Has(choice, "index") THEN choice.index ELSE 0]
                      @@ Opt(Has(choice, "finish_reason"),
                             [finishReason |-> choice.finish_reason])>>]]

\* ------------------------------------------------------ makeStreamRequest
\* One turn of the loop over the lines of a chunk:
\*   "continue"  not a data line, or its payload does not parse
\*   "return"    the payload is [DONE]
\*   "yield"     the parsed payload
lineStep_IgnoreDone(line) ==
    LET trimmed == trim(line)
    IN  IF trimmed = <<>> \/ ~startsWith(trimmed, DataPrefix) THEN [kind |-> "continue"]
        ELSE LET data == SubSeq(trimmed, 7, Len(trimmed))
             IN  IF JSONParse(data).ok
                 THEN [kind |-> "yield", parsed |-> JSONParse(data).value]
                 ELSE [kind |-> "continue"]

lineStep_ParseEnds(line) ==
    LET trimmed == trim(line)
    IN  IF trimmed = <<>> \/ ~startsWith(trimmed, DataPrefix) THEN [kind |-> "continue"]
        ELSE LET data == SubSeq(trimmed, 7, Len(trimmed))
             IN  IF data = DoneMark \/ ~JSONParse(data).ok THEN [kind |-> "return"]
                 ELSE [kind |-> "yield", parsed |-> JSONParse(data).value]

lineStep(line) ==
    LET trimmed == trim(line)
    IN  IF trimmed = <<>> \/ ~startsWith(trimmed, DataPrefix) THEN [kind |-> "continue"]
        ELSE LET data == SubSeq(trimmed, 7, Len(trimmed))
             IN  IF data = DoneMark THEN [kind |-> "return"]
                 ELSE IF JSONParse(data).ok
                      THEN [kind |-> "yield", parsed |-> JSONParse(data).value]
                      ELSE [kind |-> "continue"]

\* lines.pop() || ''
bufferAfter_Dropped(ls) == <<>>

bufferAfter(ls) == ls[Len(ls)]

\* The call after reader.read() gave value: the buffer takes it, the complete
\* lines are split off and the rest stays in the buffer.
readValue(call, value) ==
    LET ls == split(call.buffer \o value)
    IN  [call EXCEPT !.buffer = bufferAfter(ls),
                     !.lines = SubSeq(ls, 1, Len(ls) - 1),
                     !.pos = @ + Len(value)]

\* The finally block of makeStreamRequest.
finally_NoRelease(call) == call

finally(call) == [call EXCEPT !.reader = "released"]

\* Back in makeStreamRequest's loops: the next line, or the next read.
resume(call) == [call EXCEPT !.pc = IF call.lines = <<>> THEN "reading" ELSE "lines"]

\* The call after one line of the chunk: the turn of makeStreamRequest's loop
\* and, when it yields, the turn of convertStreamToGeminiFormat's loop.
afterLine(call) ==
    LET step == lineStep(Head(call.lines))
        rest == [call EXCEPT !.lines = Tail(@)]
    IN  IF step.kind = "continue" THEN resume(rest)
        ELSE IF step.kind = "return" THEN [finally(rest) EXCEPT !.pc = "done"]
        ELSE LET conv == convertChunk(step.parsed)
             IN  IF conv.kind = "throw"
                 THEN [finally(rest) EXCEPT !.pc = "failed", !.error = "TypeError"]
                 ELSE IF conv.kind = "skip" THEN resume(rest)
                 ELSE [rest EXCEPT !.pc = "yielded",
                                   !.accumulatedContent = @ \o conv.deltaContent,
                                   !.emitted = Append(@, conv.result)]

\* generateContentStream(request): the generators are made, nothing runs yet.
GenerateContentStream(c) ==
    /\ calls[c].pc = "idle"
    /\ calls' = [calls EXCEPT ![c].pc = "created"]
    /\ UNCHANGED <<configVars, mapperVars, responseVars, httpVars, fetchCalls>>

\* The consumer's first next(): makeStreamRequest runs up to await fetch.
StartIteration(c) ==
    /\ calls[c].pc = "created"
    /\ calls' = [calls EXCEPT ![c].pc = "fetching"]
    /\ fetchCalls' = fetchCalls + 1
    /\ UNCHANGED <<configVars, mapperVars, responseVars, httpVars>>

\* fetch rejects, or the response is ok and has no body: the call throws before
\* there is a reader.
FetchFails(c, why) ==
    /\ calls[c].pc = "fetching"
    /\ calls' = [calls EXCEPT ![c].pc = "failed", ![c].error = why,
                              ![c].response =
                                  IF why = "fetch failed" THEN <<>> ELSE [ok |-> TRUE]]
    /\ UNCHANGED <<configVars, mapperVars, responseVars, httpVars, fetchCalls>>

\* The response is not ok: the call throws what the not-ok branch throws.
FetchNotOk(c) ==
    /\ calls[c].pc = "fetching"
    /\ \E b \in ErrorBodies, st \in ErrorStatuses :
        LET resp == [ok |-> FALSE, body |-> b] @@ st
        IN  calls' = [calls EXCEPT ![c].pc = "failed", ![c].response = resp,
                                  ![c].error = notOk(resp).message]
    /\ UNCHANGED <<configVars, mapperVars, responseVars, httpVars, fetchCalls>>

\* The response is ok: getReader() locks the body, which will carry frames of
\* seqs; when open, the connection ends before the newline of the last frame.
FetchRespondsWith(c, seqs) ==
    /\ calls[c].pc = "fetching"
    /\ \E frames \in seqs, open \in BOOLEAN :
        /\ open => frames # <<>>
        /\ calls' = [calls EXCEPT ![c].pc = "reading", ![c].reader = "locked",
                                  ![c].response = [ok |-> TRUE],
                                  ![c].sent = frames,
                                  ![c].stream =
                                      IF open
                                      THEN SubSeq(Bytes(frames), 1, Len(Bytes(frames)) - 1)
                                      ELSE Bytes(frames)]
    /\ UNCHANGED <<configVars, mapperVars, responseVars, httpVars, fetchCalls>>

FetchResponds(c) == FetchRespondsWith(c, FrameSeqs)

\* reader.read() with one buffer for all the calls of the generator: the bytes
\* are appended to what another call left.
ReadValue_SharedBuffer(c) ==
    /\ calls[c].pc = "reading"
    /\ \E n \in 1..(Len(calls[c].stream) - calls[c].pos) :
        LET other == CHOOSE d \in CallIds : d # c
            call == [calls[c] EXCEPT !.buffer = calls[other].buffer]
            value == SubSeq(call.stream, call.pos + 1, call.pos + n)
        IN  calls' = [calls EXCEPT ![c] = resume(readValue(call, value))]
    /\ UNCHANGED <<configVars, mapperVars, responseVars, httpVars, fetchCalls>>

\* reader.read() gives the next bytes, as many as the transport has for it.
ReadValue(c) ==
    /\ calls[c].pc = "reading"
    /\ \E n \in 1..(Len(calls[c].stream) - calls[c].pos) :
        LET call == calls[c]
            value == SubSeq(call.stream, call.pos + 1, call.pos + n)
        IN  calls' = [calls EXCEPT ![c] = resume(readValue(call, value))]
    /\ UNCHANGED <<configVars, mapperVars, responseVars, httpVars, fetchCalls>>

\* reader.read() gives done, with a decoder that takes what is left in the
\* buffer for a last line.
ReadDone_Flushes(c) ==
    /\ calls[c].pc = "reading"
    /\ calls[c].pos = Len(calls[c].stream)
    /\ calls' = [calls EXCEPT ![c] =
                    IF calls[c].buffer = <<>>
                    THEN [finally(calls[c]) EXCEPT !.pc = "done"]
                    ELSE resume([calls[c] EXCEPT !.lines = <<calls[c].buffer>>,
                                                 !.buffer = <<>>])]
    /\ UNCHANGED <<configVars, mapperVars, responseVars, httpVars, fetchCalls>>

\* reader.read() gives done: break, finally.
ReadDone(c) ==
    /\ calls[c].pc = "reading"
    /\ calls[c].pos = Len(calls[c].stream)
    /\ calls' = [calls EXCEPT ![c] = [finally(calls[c]) EXCEPT !.pc = "done"]]
    /\ UNCHANGED <<configVars, mapperVars, responseVars, httpVars, fetchCalls>>

\* reader.read() rejects (the transport drops): finally, and the error goes on.
ReadFails(c) ==
    /\ calls[c].pc = "reading"
    /\ calls' = [calls EXCEPT ![c] = [finally(calls[c]) EXCEPT !.pc = "failed",
                                                                 !.error = "read failed"]]
    /\ UNCHANGED <<configVars, mapperVars, responseVars, httpVars, fetchCalls>>

\* One line of the chunk.
ProcessLine(c) ==
    /\ calls[c].pc = "lines"
    /\ calls' = [calls EXCEPT ![c] = afterLine(calls[c])]
    /\ UNCHANGED <<configVars, mapperVars, responseVars, httpVars, fetchCalls>>

\* The consumer asks for the next partial response.
ConsumerNext(c) ==
    /\ calls[c].pc = "yielded"
    /\ calls' = [calls EXCEPT ![c] = resume(calls[c])]
    /\ UNCHANGED <<configVars, mapperVars, responseVars, httpVars, fetchCalls>>

\* The consumer leaves its loop: return() on the outer generator, whose
\* for-await calls return() on makeStreamRequest, whose finally block runs.
ConsumerReturn(c) ==
    /\ calls[c].pc = "yielded"
    /\ calls' = [calls EXCEPT ![c] = [finally(calls[c]) EXCEPT !.pc = "returned"]]
    /\ UNCHANGED <<configVars, mapperVars, responseVars, httpVars, fetchCalls>>

StreamInit ==
    /\ MapperIdle /\ ResponseIdle /\ HttpIdle /\ fetchCalls = 0 /\ ConfigIdle
    /\ calls = [c \in CallIds |-> IF c = 1 THEN IdleCall ELSE [IdleCall EXCEPT !.pc = "unused"]]

StreamNext ==
    \E c \in CallIds :
        \/ GenerateContentStream(c)
        \/ StartIteration(c)
        \/ \E why \in {"fetch failed", "Failed to get stream reader"} : FetchFails(c, why)
        \/ FetchNotOk(c)
        \/ FetchResponds(c)
        \/ ReadValue(c)
        \/ ReadDone(c)
        \/ ReadFails(c)
        \/ ProcessLine(c)
        \/ ConsumerNext(c)
        \/ ConsumerReturn(c)

SpecStream == StreamInit /\ [][StreamNext]_vars

\* The frames whose payload parses, and a malformed one.
ParsedKinds == {"hel", "finish", "nochoice", "object", "malformed"}

ParsedSeqs == UNION {[1..n -> ParsedKinds] : n \in 0..MaxFrames}

\* A stream of such frames, read to its end by a consumer that takes every
\* partial response.
FramesNext ==
    \E c \in CallIds :
        \/ GenerateContentStream(c)
        \/ StartIteration(c)
        \/ FetchRespondsWith(c, ParsedSeqs)
        \/ ReadValue(c)
        \/ ReadDone(c)
        \/ ProcessLine(c)
        \/ ConsumerNext(c)

SpecFrames == StreamInit /\ [][FramesNext]_vars

\* ------------------------------------------------- OpenAIContentGenerator
\* Numbers that are fractions in the source (temperature, top_p) are counted in
\* tenths: 0 is 0, 7 is 0.7.

\* config.openaiConfig
OpenAIConfigs ==
    {[organization |-> "org-1"],
     [maxTokens |-> 256, temperature |-> 5, topP |-> 9]}

\* The ContentGeneratorConfig handed to the constructor.
GeneratorConfigs ==
    {[provider |-> "openai", model |-> "gpt-4"] @@ k @@ u @@ o :
        k \in OptField("apiKey", {"", "test-api-key"}),
        u \in OptField("baseUrl", {"http://localhost:8080/v1"}),
        o \in OptField("openaiConfig", OpenAIConfigs)}

\* httpOptions.headers
CallerHeaders ==
    {<<>>, [Authorization |-> "Bearer caller-key"], "X-Trace" :> "on"}

DefaultBaseUrl == "https://api.openai.com/v1"

\* The constructor with if (config.apiKey === undefined) for if (!config.apiKey).
construct_EmptyKeyAllowed(config, headers) ==
    IF ~Has(config, "apiKey")
    THEN [state |-> "threw", message |-> "OpenAI API key is required"]
    ELSE [state |-> "constructed",
          config |-> IF ~Has(config, "baseUrl") \/ config.baseUrl = ""
                     THEN [baseUrl |-> DefaultBaseUrl] @@ config
                     ELSE config,
          httpOptions |-> [headers |-> headers]]

\* new OpenAIContentGenerator(config, httpOptions)
construct(config, headers) ==
    IF ~Has(config, "apiKey") \/ config.apiKey = ""
    THEN [state |-> "threw", message |-> "OpenAI API key is required"]
    ELSE [state |-> "constructed",
          config |-> IF ~Has(config, "baseUrl") \/ config.baseUrl = ""
                     THEN [baseUrl |-> DefaultBaseUrl] @@ config
                     ELSE config,
          httpOptions |-> [headers |-> headers]]

\* this.config.openaiConfig?.organization is truthy
HasOrganization(config) ==
    /\ Has(config, "openaiConfig")
    /\ Has(config.openaiConfig, "organization")
    /\ config.openaiConfig.organization # ""

\* The fetch arguments makeRequest builds: in the headers literal the spread of
\* the caller's headers comes last, so its entries replace the ones before it.
fetchArgs(gen, endpoint, body) ==
    [url |-> gen.config.baseUrl \o endpoint,
     method |-> "POST",
     headers |->
        Opt(HasOrganization(gen.config),
            "OpenAI-Organization" :> gen.config.openaiConfig.organization)
        @@ gen.httpOptions.headers
        @@ ("Content-Type" :> "application/json")
        @@ [Authorization |-> "Bearer " \o gen.config.apiKey],
     body |-> body]

\* The fetch arguments makeStreamRequest builds: the headers literal also has
\* Accept, and the body is {...body, stream: true}.
streamFetchArgs(gen, endpoint, body) ==
    [url |-> gen.config.baseUrl \o endpoint,
     method |-> "POST",
     headers |->
        Opt(HasOrganization(gen.config),
            "OpenAI-Organization" :> gen.config.openaiConfig.organization)
        @@ gen.httpOptions.headers
        @@ ("Content-Type" :> "application/json")
        @@ [Authorization |-> "Bearer " \o gen.config.apiKey]
        @@ [Accept |-> "text/event-stream"],
     body |-> [stream |-> TRUE] @@ body]

\* a || b on two optional numbers, as a record holding field `to` or nothing:
\* a when a is set and not 0, else b when b is set.
OrElse(a, f, b, g, to) ==
    IF Has(a, f) /\ a[f] # 0 THEN [x \in {to} |-> a[f]]
    ELSE IF Has(b, g) THEN [x \in {to} |-> b[g]]
    ELSE <<>>

\* request.config of a GenerateContentParameters; openaiConfig of the config.
PerCall(req) == IF Has(req, "config") THEN req.config ELSE <<>>
Configured(config) == IF Has(config, "openaiConfig") THEN config.openaiConfig ELSE <<>>

\* The OpenAIRequest of generateContent and generateContentStream
\* (JSON.stringify leaves out a property that is undefined).
openAIRequest(gen, req) ==
    [model |-> req.model, messages |-> geminiToOpenAI(req.contents)]
    @@ Opt(Has(Configured(gen.config), "maxTokens"),
           [max_tokens |-> Configured(gen.config).maxTokens])
    @@ OrElse(PerCall(req), "temperature", Configured(gen.config), "temperature", "temperature")
    @@ OrElse(PerCall(req), "topP", Configured(gen.config), "topP", "top_p")

\* FormatMapper.universalToOpenAI
universalToOpenAI(msgs) ==
    [i \in 1..Len(msgs) |->
        LET msg == msgs[i]
        IN  [role |-> msg.role, content |-> msg.content]
            @@ Opt(Has(msg, "name"), [name |-> msg.name])
            @@ Opt(Has(msg, "functionCall"),
                   [function_call |-> [name |-> msg.functionCall.name,
                                       arguments |-> msg.functionCall.arguments]])]

\* The OpenAIRequest of generateUniversalContent.
universalRequest(req) ==
    [model |-> req.model, messages |-> universalToOpenAI(req.messages)]
    @@ Opt(Has(req, "maxTokens"), [max_tokens |-> req.maxTokens])
    @@ Opt(Has(req, "temperature"), [temperature |-> req.temperature])
    @@ Opt(Has(req, "topP"), [top_p |-> req.topP])

\* The calls of the model: the method, its request, the endpoint and body.
HelloContents == <<[role |-> "user", parts |-> <<[text |-> "Hello"]>>]>>

GenerateRequests ==
    {[model |-> "gpt-4", contents |-> HelloContents] @@ cfg :
        cfg \in OptField("config",
                   {t @@ p : t \in OptField("temperature", {0, 7}),
                             p \in OptField("topP", {0, 8})})}

UniversalRequests ==
    {[model |-> "gpt-4",
      messages |-> <<[role |-> "system", content |-> "Be brief."],
                     [role |-> "function", content |-> "12:00", name |-> "get_time"]>>] @@ t :
        t \in OptField("temperature", {0})}

Methods == {"generateContent", "embedContent", "generateUniversalContent",
            "generateUniversalEmbedding"}

MethodRequests(method) ==
    IF method = "generateContent" THEN GenerateRequests
    ELSE IF method = "generateUniversalContent" THEN UniversalRequests
    ELSE IF method = "embedContent"
    THEN {[model |-> "text-embedding-3-small", contents |-> "Hello"]}
    ELSE {[model |-> "text-embedding-3-small", input |-> "Hello"]}

endpointOf(method) ==
    IF method \in {"generateContent", "generateUniversalContent"}
    THEN "/chat/completions" ELSE "/embeddings"

bodyOf(gen, method, req) ==
    IF method = "generateContent" THEN openAIRequest(gen, req)
    ELSE IF method = "generateUniversalContent" THEN universalRequest(req)
    ELSE IF method = "embedContent" THEN [model |-> req.model, input |-> req.contents]
    ELSE [model |-> req.model, input |-> req.input]

\* The bodies of the responses that are ok, by endpoint.
ChatBodies ==
    {[choices |-> <<[index |-> 0,
                     message |-> [role |-> "assistant", content |-> "Hello!"],
                     finish_reason |-> "stop"]>>,
      usage |-> [prompt_tokens |-> 10, completion_tokens |-> 15, total_tokens |-> 25]],
     [choices |-> <<>>]}

EmbeddingBodies ==
    {[data |-> <<[embedding |-> <<1, 2>>]>>,
      usage |-> [prompt_tokens |-> 3, total_tokens |-> 3]],
     [data |-> <<[embedding |-> <<1, 2>>], [embedding |-> <<3>>]>>]}

\* response.body of a streaming response: a stream getReader() can lock, or
\* nothing.
StreamBodies == {[readable |-> TRUE], [readable |-> FALSE]}

OkBodies(method) ==
    IF method \in {"generateContent", "generateUniversalContent"} THEN ChatBodies
    ELSE IF method = "generateContentStream" THEN StreamBodies
    ELSE EmbeddingBodies

HttpResponses(method) ==
    {[ok |-> TRUE, body |-> b] : b \in OkBodies(method)}
    \cup {[ok |-> FALSE, body |-> b] @@ st : b \in ErrorBodies, st \in ErrorStatuses}

\* What the method makes of the parsed body makeRequest returns.
mapBody(method, body) ==
    IF method = "generateContent" THEN openAIResponseToGemini(body)
    ELSE IF method = "generateContentStream"
    THEN IF body.readable THEN [reader |-> "locked"] ELSE [reader |-> "none"]
    ELSE IF method = "generateUniversalContent" THEN openAIToUniversal(body)
    ELSE IF method = "embedContent"
    THEN [embeddings |-> [i \in 1..Len(body.data) |-> [values |-> body.data[i].embedding]]]
    ELSE [embeddings |-> [i \in 1..Len(body.data) |-> body.data[i].embedding]]
         @@ Opt(Has(body, "usage"),
                [usage |-> [promptTokens |-> body.usage.prompt_tokens,
                            completionTokens |-> 0,
                            totalTokens |-> body.usage.total_tokens]])

Construct ==
    /\ generator.state = "none"
    /\ \E config \in GeneratorConfigs, headers \in CallerHeaders :
        generator' = [given |-> config] @@ construct(config, headers)
    /\ UNCHANGED <<configVars, hpc, request, httpResponse, outcome, mapperVars, responseVars, calls,
                   fetchCalls>>

\* A method is called: it builds its request and makeRequest calls fetch.
CallMethod ==
    /\ generator.state = "constructed"
    /\ hpc = "idle"
    /\ \E method \in Methods : \E req \in MethodRequests(method) :
        request' = [op |-> method, params |-> req]
                   @@ fetchArgs(generator, endpointOf(method), bodyOf(generator, method, req))
    /\ fetchCalls' = fetchCalls + 1
    /\ hpc' = "awaiting"
    /\ UNCHANGED <<configVars, generator, httpResponse, outcome, mapperVars, responseVars, calls>>

\* generateContentStream(request): the request body is built and the
\* generators are made; nothing runs, nothing is fetched.
CallStreamMethod ==
    /\ generator.state = "constructed"
    /\ hpc = "idle"
    /\ \E req \in GenerateRequests :
        request' = [op |-> "generateContentStream", params |-> req,
                    openAIRequest |-> openAIRequest(generator, req)]
    /\ hpc' = "created"
    /\ UNCHANGED <<configVars, generator, httpResponse, outcome, mapperVars, responseVars, calls,
                   fetchCalls>>

\* The consumer's first next(): makeStreamRequest builds the headers and calls
\* fetch.
FirstNext ==
    /\ hpc = "created"
    /\ request' = [op |-> request.op, params |-> request.params]
                   @@ streamFetchArgs(generator, "/chat/completions", request.openAIRequest)
    /\ fetchCalls' = fetchCalls + 1
    /\ hpc' = "awaiting"
    /\ UNCHANGED <<configVars, generator, httpResponse, outcome, mapperVars, responseVars, calls>>

\* fetch rejects and the request is issued once more.
FetchRejects_Retries ==
    /\ hpc = "awaiting"
    /\ fetchCalls < 2
    /\ httpResponse' = [rejected |-> TRUE]
    /\ fetchCalls' = fetchCalls + 1
    /\ UNCHANGED <<configVars, generator, hpc, request, outcome, mapperVars, responseVars, calls>>

\* fetch rejects: the rejection is the method's.
FetchRejects ==
    /\ hpc = "awaiting"
    /\ httpResponse' = [rejected |-> TRUE]
    /\ outcome' = Threw("TypeError", "fetch failed")
    /\ hpc' = "settled"
    /\ UNCHANGED <<configVars, generator, request, mapperVars, responseVars, calls, fetchCalls>>

\* fetch resolves: makeRequest and makeStreamRequest throw on a response that
\* is not ok; makeRequest returns the parsed body of one that is, which the
\* method maps; makeStreamRequest locks the body's reader, or throws when the
\* response has no body.
FetchResolves ==
    /\ hpc = "awaiting"
    /\ \E resp \in HttpResponses(request.op) :
        /\ httpResponse' = resp
        /\ outcome' = IF ~resp.ok THEN notOk(resp)
                      ELSE IF request.op = "generateContentStream" /\ ~resp.body.readable
                      THEN Threw("Error", "Failed to get stream reader")
                      ELSE Returned(mapBody(request.op, resp.body))
    /\ hpc' = "settled"
    /\ UNCHANGED <<configVars, generator, request, mapperVars, responseVars, calls, fetchCalls>>

HttpInit == MapperIdle /\ ResponseIdle /\ StreamIdle /\ HttpIdle /\ fetchCalls = 0 /\ ConfigIdle

HttpNext ==
    Construct \/ CallMethod \/ CallStreamMethod \/ FirstNext \/ FetchRejects \/ FetchResolves

SpecHttp == HttpInit /\ [][HttpNext]_vars

\* ------------------------------------------------- the mapper's harness
RECURSIVE PartCount(_)
PartCount(cs) ==
    IF cs = <<>> THEN 0
    ELSE (IF Has(cs[1], "parts") THEN Len(cs[1].parts) ELSE 0) + PartCount(Tail(cs))

\* The caller appends a Content, with an empty parts array or with none.
AddContent(role, withParts) ==
    /\ mpc = "build"
    /\ Len(contents) < MaxContents
    /\ contents' = Append(contents, [role |-> role] @@ Opt(withParts, [parts |-> <<>>]))
    /\ UNCHANGED <<configVars, mpc, messages, native, tokens, responseVars, calls, httpVars, fetchCalls>>

\* The caller appends a Part to the last Content.
AddPart(part) ==
    /\ mpc = "build"
    /\ contents # <<>>
    /\ Has(contents[Len(contents)], "parts")
    /\ PartCount(contents) < MaxParts
    /\ contents' = [contents EXCEPT ![Len(contents)].parts = Append(@, part)]
    /\ UNCHANGED <<configVars, mpc, messages, native, tokens, responseVars, calls, httpVars, fetchCalls>>

GeminiToOpenAI ==
    /\ mpc = "build"
    /\ messages' = geminiToOpenAI(contents)
    /\ mpc' = "mapped"
    /\ UNCHANGED <<configVars, contents, native, tokens, responseVars, calls, httpVars, fetchCalls>>

OpenAIToGemini ==
    /\ mpc = "mapped"
    /\ native' = openAIToGemini(messages)
    /\ mpc' = "back"
    /\ UNCHANGED <<configVars, contents, messages, tokens, responseVars, calls, httpVars, fetchCalls>>

CountTokens(model) ==
    /\ mpc = "build"
    /\ tokens' = countTokens(model, contents)
    /\ mpc' = "counted"
    /\ UNCHANGED <<configVars, contents, messages, native, responseVars, calls, httpVars, fetchCalls>>

MapperInit == MapperIdle /\ ResponseIdle /\ StreamIdle /\ HttpIdle /\ fetchCalls = 0 /\ ConfigIdle

MapperNext ==
    \/ \E role \in Roles, withParts \in BOOLEAN : AddContent(role, withParts)
    \/ \E part \in Parts : AddPart(part)
    \/ GeminiToOpenAI
    \/ OpenAIToGemini
    \/ \E model \in ModelNames : CountTokens(model)

SpecMapper == MapperInit /\ [][MapperNext]_vars

\* ------------------------------------------------------------- claims
\* The text a Native content carries: the texts of its text-bearing parts, in
\* order, one after the other (built from the last part backwards).
RECURSIVE FlatText(_)
FlatText(ps) ==
    IF ps = <<>> THEN ""
    ELSE LET n == Len(ps)
         IN  FlatText(SubSeq(ps, 1, n - 1)) \o (IF Has(ps[n], "text") THEN ps[n].text ELSE "")

ContentText(content) == IF Has(content, "parts") THEN FlatText(content.parts) ELSE ""

\* C1: round trip. openAIToGemini(geminiToOpenAI(contents)) has the length and
\* the role sequence of contents, and each resulting content has the single text
\* part holding the concatenation of the original content's texts.
C1_RoundTrip ==
    mpc = "back" =>
        /\ Len(native) = Len(contents)
        /\ \A i \in 1..Len(contents) :
            /\ native[i].role = contents[i].role
            /\ native[i].parts = <<[text |-> ContentText(contents[i])]>>

C1_Witness ==
    /\ mpc = "back"
    /\ Len(contents) = 2
    /\ contents[1].role = "user" /\ contents[2].role = "model"
    /\ Has(contents[2], "parts") /\ Len(contents[2].parts) = 2
    /\ native[2].parts = <<[text |-> "abc"]>>

\* C2: geminiToOpenAI gives one message per content, in order; model becomes
\* assistant and any other role is kept; content is the texts of the
\* text-bearing parts with no separator, and "" (a string, always present) when
\* there is none.
C2_GeminiToOpenAI ==
    mpc = "mapped" =>
        /\ Len(messages) = Len(contents)
        /\ \A i \in 1..Len(contents) :
            /\ DOMAIN messages[i] = {"role", "content"}
            /\ messages[i].role =
                 (IF contents[i].role = "model" THEN "assistant" ELSE contents[i].role)
            /\ messages[i].content = ContentText(contents[i])
            /\ (~Has(contents[i], "parts")
                \/ \A j \in 1..Len(contents[i].parts) : ~Has(contents[i].parts[j], "text"))
               => messages[i].content = ""

C2_Witness ==
    /\ mpc = "mapped"
    /\ Len(contents) = 2
    /\ contents[1] = [role |-> "model", parts |-> <<[text |-> "a"], [inlineData |-> "img"], [text |-> "bc"]>>]
    /\ contents[2] = [role |-> "system", parts |-> <<>>]
    /\ messages = <<[role |-> "assistant", content |-> "abc"], [role |-> "system", content |-> ""]>>

\* The character count of the flattened input of countTokens, counted part by
\* part: the lengths of the texts, and one space between consecutive contents.
RECURSIVE TextChars(_)
TextChars(ps) ==
    IF ps = <<>> THEN 0
    ELSE (IF Has(ps[1], "text") THEN Len(ps[1].text) ELSE 0) + TextChars(Tail(ps))

RECURSIVE FlatChars(_)
FlatChars(cs) ==
    IF cs = <<>> THEN 0
    ELSE (IF Has(cs[1], "parts") THEN TextChars(cs[1].parts) ELSE 0)
         + (IF Len(cs) > 1 THEN 1 ELSE 0) + FlatChars(Tail(cs))

\* C5: a countTokens step leaves totalTokens = ceil(L / 4), L the character
\* count of the flattened contents, whatever the model name, and calls fetch
\* not once.
C5_CountTokens ==
    [][mpc' = "counted" /\ mpc # "counted" =>
        /\ 4 * tokens'.totalTokens >= FlatChars(contents)
        /\ 4 * (tokens'.totalTokens - 1) < FlatChars(contents)
        /\ fetchCalls' = fetchCalls]_vars

C5_Witness ==
    /\ mpc = "counted"
    /\ Len(contents) = 2
    /\ FlatChars(contents) = 5
    /\ tokens.totalTokens = 2
\* The three envelopes openAIResponseToGemini tolerates, carrying message m with
\* finish reason and index left out.
StandardEnvelope(m) == [choices |-> <<[message |-> m]>>]
ArrayEnvelope(m) == [message |-> [isArray |-> TRUE, items |-> <<m>>]]
ObjectEnvelope(m) == [message |-> [isArray |-> FALSE, value |-> m]]

Normalized(m) ==
    [candidates |->
        <<[content |-> [role |-> "model",
                        parts |-> <<[text |-> IF Has(m, "content") THEN m.content ELSE ""]>>],
           finishReason |-> "STOP", index |-> 0]>>]

\* C3: a message in any of the three tolerated envelopes, finish reason and
\* index left out, is mapped to the same normalized response: one candidate,
\* role model, the message text as its one text part, finishReason "STOP", index 0.
C3_ThreeEnvelopes ==
    rpc = "gemini" =>
        \A m \in OpenAIMessages :
            response \in {StandardEnvelope(m), ArrayEnvelope(m), ObjectEnvelope(m)}
                => generated = Normalized(m)

\* C4: openAIToUniversal maps absence to absence: no choice gives content ""
\* and no finishReason; no function call gives no functionCalls (not an empty
\* list); no usage gives no usage, and a usage has its three counts copied.
C4_AbsenceToAbsence ==
    rpc = "universal" =>
        /\ Has(universal, "content")
        /\ response.choices = <<>> =>
            universal.content = "" /\ ~Has(universal, "finishReason")
        /\ (response.choices = <<>>
            \/ ~Has(response.choices[1], "message")
            \/ ~Has(response.choices[1].message, "function_call"))
           => ~Has(universal, "functionCalls")
        /\ ~Has(response, "usage") => ~Has(universal, "usage")
        /\ Has(response, "usage") =>
            /\ Has(universal, "usage")
            /\ universal.usage.promptTokens = response.usage.prompt_tokens
            /\ universal.usage.completionTokens = response.usage.completion_tokens
            /\ universal.usage.totalTokens = response.usage.total_tokens

C4_Witness ==
    /\ rpc = "universal"
    /\ response = [choices |-> <<>>]
    /\ universal = [content |-> ""]

C4_WitnessUsage ==
    /\ rpc = "universal"
    /\ Has(response, "usage") /\ response.usage.total_tokens = 25
    /\ Len(response.choices) = 1
    /\ ~Has(universal, "functionCalls")
    /\ universal.usage.totalTokens = 25
\* ------------------------------------------------------ streaming claims
\* A frame that carries delta text, and its text.
TextFrames == {"hel", "lo"}

DeltaText(kind) == IF kind = "hel" THEN "Hel" ELSE "lo"

\* The partial response that carries text and nothing else.
Partial(text) ==
    [candidates |->
        <<[content |-> [role |-> "model", parts |-> <<[text |-> text]>>], index |-> 0]>>]

\* The partial responses of the text frames among frames, in order.
RECURSIVE Partials(_)
Partials(frames) ==
    IF frames = <<>> THEN <<>>
    ELSE (IF frames[1] \in TextFrames THEN <<Partial(DeltaText(frames[1]))>> ELSE <<>>)
         \o Partials(Tail(frames))

IsPrefix(a, b) == Len(a) <= Len(b) /\ SubSeq(b, 1, Len(a)) = a

\* The call has a response body and the server ends every frame with a newline.
Streaming(call) == call.reader # "none" /\ call.stream = Bytes(call.sent)

\* The frames are n text frames, then [DONE], then any frames.
DoneAfter(frames, n) ==
    /\ n < Len(frames)
    /\ frames[n + 1] = "done"
    /\ \A i \in 1..n : frames[i] \in TextFrames

\* C6: of n text frames followed by data: [DONE], the consumer receives the n
\* partial responses, in order, each with its frame's delta text; no frame
\* after [DONE] is emitted; the decoder does not wait for bytes after [DONE]
\* and raises no error.
C6_DoneTerminates ==
    \A c \in CallIds : \A n \in 0..MaxFrames :
        LET call == calls[c]
        IN  Streaming(call) /\ DoneAfter(call.sent, n) =>
                /\ IsPrefix(call.emitted, Partials(SubSeq(call.sent, 1, n)))
                /\ call.pc = "done" => Len(call.emitted) = n
                /\ call.pc = "reading" => call.pos < Len(Bytes(SubSeq(call.sent, 1, n + 1)))
                /\ call.pc = "failed" => call.error = "read failed"

C6_Witness ==
    /\ calls[1].sent = <<"hel", "done", "lo">>
    /\ calls[1].pc = "done"
    /\ calls[1].emitted = <<Partial("Hel")>>
    /\ calls[1].pos = Len(calls[1].stream)

\* C7: in a stream of text frames and malformed frames, a malformed frame
\* emits nothing, raises no error and does not end the sequence: the text
\* frames before and after it are emitted in order, and the sequence ends only
\* with the stream.
C7_MalformedDropped ==
    \A c \in CallIds :
        LET call == calls[c]
        IN  /\ Streaming(call)
            /\ \A i \in 1..Len(call.sent) : call.sent[i] \in TextFrames \cup {"malformed"}
            => /\ IsPrefix(call.emitted, Partials(call.sent))
               /\ call.pc = "done" =>
                    call.emitted = Partials(call.sent) /\ call.pos = Len(call.stream)
               /\ call.pc = "failed" => call.error = "read failed"

C7_Witness ==
    /\ calls[1].sent = <<"hel", "malformed", "lo">>
    /\ calls[1].stream = Bytes(calls[1].sent)
    /\ calls[1].pc = "done"
    /\ calls[1].emitted = <<Partial("Hel"), Partial("lo")>>

\* The call that reads `stream` in one chunk, with a consumer that takes every
\* partial response: the lines of the chunk, run to the end.
RECURSIVE runLines(_)
runLines(call) ==
    IF call.pc = "lines" THEN runLines(afterLine(call))
    ELSE IF call.pc = "yielded" THEN runLines(resume(call))
    ELSE call

oneChunk(stream) ==
    LET start == [IdleCall EXCEPT !.pc = "reading", !.reader = "locked", !.stream = stream]
        read == IF stream = <<>> THEN start ELSE runLines(resume(readValue(start, stream)))
    IN  IF read.pc = "reading" THEN [finally(read) EXCEPT !.pc = "done"] ELSE read

\* The bytes delivered after the last newline delivered.
Unterminated(bytes) ==
    LET at == {i \in 1..Len(bytes) : bytes[i] = NL}
        last == IF at = {} THEN 0 ELSE CHOOSE i \in at : \A j \in at : j <= i
    IN  SubSeq(bytes, last + 1, Len(bytes))

\* C8: however the stream is cut into chunks, the consumer receives what it
\* receives when the stream comes in one chunk, and the sequence ends the same
\* way; between reads the buffer holds exactly the bytes delivered after the
\* last newline.
C8_ChunkIndependence ==
    \A c \in CallIds :
        LET call == calls[c]
            one == oneChunk(call.stream)
        IN  call.reader # "none" =>
                /\ IsPrefix(call.emitted, one.emitted)
                /\ call.pc = "done" \/ (call.pc = "failed" /\ call.error = "TypeError")
                    => /\ call.emitted = one.emitted
                       /\ call.pc = one.pc
                       /\ call.error = one.error
                /\ call.pc \in {"reading", "lines", "yielded"}
                    => call.buffer = Unterminated(SubSeq(call.stream, 1, call.pos))

\* A frame has come in three chunks, cut inside "data: " and inside the payload.
C8_Witness ==
    /\ calls[1].sent = <<"hel", "lo">>
    /\ calls[1].pc = "reading"
    /\ calls[1].pos = Len(Line("hel")) + 1 + 3
    /\ calls[1].buffer = <<"d", "a", "t">>
    /\ calls[1].emitted = <<Partial("Hel")>>

\* C9: a streaming call that has ended (end of stream, [DONE], the consumer's
\* return, an error of the reader or of the decoder) holds no reader lock; one
\* that never got a reader failed in fetch.
C9_ReaderReleased ==
    \A c \in CallIds :
        LET call == calls[c]
        IN  /\ call.pc \in {"done", "failed", "returned"} => call.reader # "locked"
            /\ call.reader = "locked" => call.pc \in {"reading", "lines", "yielded"}
            /\ call.pc \in {"done", "returned"} => call.reader = "released"
            /\ call.pc = "failed" /\ call.error \in {"read failed", "TypeError"}
                => call.reader = "released"

\* The consumer left after the first partial response, with frames unread.
C9_Witness ==
    /\ calls[1].pc = "returned"
    /\ calls[1].reader = "released"
    /\ Len(calls[1].emitted) = 1
    /\ calls[1].pos < Len(calls[1].stream)
\* ----------------------------------------------------------- HTTP claims
\* The upstream message of an error body: its error.message, "" when the body
\* is not JSON or carries no message.
UpstreamMessage(body) ==
    IF body.json /\ ~body.isNull /\ Has(body.value, "error")
       /\ Has(body.value.error, "message")
    THEN body.value.error.message ELSE ""

\* C10: a response that is not ok makes the method throw the error whose
\* message is "OpenAI API error: <status> <statusText>. <upstream message>".
C10_ApiError ==
    hpc = "settled" /\ Has(httpResponse, "ok") /\ ~httpResponse.ok =>
        /\ outcome.kind = "threw"
        /\ outcome.message =
              "OpenAI API error: " \o ToString(httpResponse.status) \o " "
              \o httpResponse.statusText \o ". " \o UpstreamMessage(httpResponse.body)

\* ------------------------------------------- streaming: failures (C11)
\* The call's response was not ok: it has thrown the provider error of that
\* response, and the consumer has received nothing.
FailsBeforeFirst(call) ==
    Has(call.response, "ok") /\ ~call.response.ok =>
        /\ call.pc = "failed"
        /\ call.emitted = <<>>
        /\ call.error =
              "OpenAI API error: " \o ToString(call.response.status) \o " "
              \o call.response.statusText \o ". " \o UpstreamMessage(call.response.body)

\* A read has failed: the consumer holds the partial responses of the bytes
\* that had been delivered, and the sequence has ended with the read's error.
FailsMidStream(call) ==
    call.pc = "failed" /\ call.reader # "none" /\ call.error # "TypeError" =>
        /\ call.error = "read failed"
        /\ call.emitted = oneChunk(SubSeq(call.stream, 1, call.pos)).emitted

\* C11: a response that is not ok makes the streaming sequence throw the
\* provider error with no element emitted; a read that fails ends the sequence
\* with its error after the partial responses decoded so far; a sequence that
\* has failed emits nothing more.
C11_StreamFailure ==
    /\ [](\A c \in CallIds : FailsBeforeFirst(calls[c]) /\ FailsMidStream(calls[c]))
    /\ [][\A c \in CallIds : calls[c].pc = "failed" => calls'[c] = calls[c]]_vars

\* ------------------------------------------------ construction (C12)
NoApiKey(config) == ~Has(config, "apiKey") \/ config.apiKey = ""

\* C12: the constructor given a config with no API key (absent or empty)
\* throws 'OpenAI API key is required' and nothing is fetched; every instance
\* that exists, and so every instance that has made a request, has a key.
C12_ApiKeyRequired ==
    /\ generator.state # "none" /\ NoApiKey(generator.given) =>
            /\ generator.state = "threw"
            /\ generator.message = "OpenAI API key is required"
            /\ fetchCalls = 0 /\ hpc = "idle" /\ request = <<>>
    /\ generator.state = "constructed" => ~NoApiKey(generator.config)
    /\ fetchCalls > 0 =>
            generator.state = "constructed" /\ ~NoApiKey(generator.config)

\* The constructor was given an empty key and threw.
C12_Witness ==
    /\ generator.state = "threw"
    /\ Has(generator.given, "apiKey") /\ generator.given.apiKey = ""
    /\ fetchCalls = 0

\* ------------------------------------------------ request headers (C13)
\* C13: every request sent, streaming or not, carries Authorization
\* 'Bearer <configured apiKey>' whatever headers the caller supplied; the
\* caller's other headers are merged in; OpenAI-Organization carries the
\* configured organization whenever there is one.
C13_AuthorizationKept ==
    Has(request, "headers") =>
        LET caller == generator.httpOptions.headers
        IN  /\ request.headers["Authorization"] = "Bearer " \o generator.config.apiKey
            /\ \A h \in DOMAIN caller \ {"Authorization", "OpenAI-Organization"} :
                    request.headers[h] = caller[h]
            /\ HasOrganization(generator.config) =>
                    /\ Has(request.headers, "OpenAI-Organization")
                    /\ request.headers["OpenAI-Organization"]
                            = generator.config.openaiConfig.organization

\* ------------------------------------------------ tuning parameters (C14)
\* The value the body should carry in property `to`: the per-call value when
\* it is set, else the configured value when it is set, else nothing.
Resolved(perCall, configured, f, to) ==
    IF Has(perCall, f) THEN [x \in {to} |-> perCall[f]]
    ELSE IF Has(configured, f) THEN [x \in {to} |-> configured[f]]
    ELSE <<>>

\* The part of a request body that is property `to`.
Only(body, to) == [x \in DOMAIN body \cap {to} |-> body[x]]

\* C14: in the body generateContent and generateContentStream send,
\* temperature and top_p are the per-call value whenever it is set (0
\* included), the configured value only when the per-call value is unset, and
\* left out when both are unset.
C14_PerCallWins ==
    Has(request, "body") /\ request.op \in {"generateContent", "generateContentStream"} =>
        LET perCall == PerCall(request.params)
            configured == Configured(generator.config)
        IN  /\ Only(request.body, "temperature")
                    = Resolved(perCall, configured, "temperature", "temperature")
            /\ Only(request.body, "top_p") = Resolved(perCall, configured, "topP", "top_p")

\* ------------------------------------------------------ String.prototype
charAt(str, i) == SubSeq(str, i, i)

\* str.includes(sub)
includes(str, sub) ==
    \E i \in 0..(Len(str) - Len(sub)) : SubSeq(str, i + 1, i + Len(sub)) = sub

UpperCase == "ABCDEFGHIJKLMNOPQRSTUVWXYZ"
LowerCase == "abcdefghijklmnopqrstuvwxyz"

\* The lower-case letter of each upper-case letter.
LowerOf ==
    [c \in {charAt(UpperCase, i) : i \in 1..26} |->
        charAt(LowerCase, CHOOSE i \in 1..26 : charAt(UpperCase, i) = c)]

lowerChar(c) == IF c \in DOMAIN LowerOf THEN LowerOf[c] ELSE c

\* str.toLowerCase()
RECURSIVE toLowerCase(_)
toLowerCase(str) ==
    IF str = "" THEN "" ELSE lowerChar(Head(str)) \o toLowerCase(Tail(str))

\* str.replace(/_/g, '-')
RECURSIVE underscoresToHyphens(_)
underscoresToHyphens(str) ==
    IF str = "" THEN ""
    ELSE (IF Head(str) = "_" THEN "-" ELSE Head(str)) \o underscoresToHyphens(Tail(str))

Digits == "0123456789"

\* The value of each digit.
DigitValues == [c \in {charAt(Digits, i) : i \in 1..10} |->
                    (CHOOSE i \in 1..10 : charAt(Digits, i) = c) - 1]

isDigit(c) == c \in DOMAIN DigitValues

digitValue(c) == DigitValues[c]

\* The number written by the digits str begins with, after acc.
RECURSIVE leadingDigits(_, _)
leadingDigits(str, acc) ==
    IF str = "" \/ ~isDigit(Head(str)) THEN acc
    ELSE leadingDigits(Tail(str), 10 * acc + digitValue(Head(str)))

RECURSIVE skipWhiteSpace(_)
skipWhiteSpace(str) ==
    IF str # "" /\ Head(str) \in WhiteSpace THEN skipWhiteSpace(Tail(str)) ELSE str

\* parseInt(str, 10): leading white space is skipped, a sign is taken, then
\* the digits up to the first character that is not one; NaN when there is no
\* digit there.
parseInt(str) ==
    LET t == skipWhiteSpace(str)
        signed == t # "" /\ Head(t) \in {"-", "+"}
        u == IF signed THEN Tail(t) ELSE t
    IN  IF u = "" \/ ~isDigit(Head(u)) THEN [nan |-> TRUE]
        ELSE [nan |-> FALSE,
              value |-> IF signed /\ Head(t) = "-" THEN 0 - leadingDigits(u, 0)
                        ELSE leadingDigits(u, 0)]

\* ---------------------------------------------------- ModelConfigManager
TokenLimitPrefix == "MODEL_TOKEN_LIMIT_"

\* key.replace('MODEL_TOKEN_LIMIT_', '').toLowerCase().replace(/_/g, '-') of a
\* key that starts with the prefix.
modelNameOf(key) ==
    underscoresToHyphens(toLowerCase(SubSeq(key, Len(TokenLimitPrefix) + 1, Len(key))))

\* loadFromEnv: dotenv puts the variables of cwd/.env into process.env, those
\* that process.env does not have yet.
loadFromEnv(env, file) == IF file.exists THEN env @@ file.vars ELSE env

\* loadFromJson: the models and tokenLimits of cwd/models.json are spread over
\* the manager's; a file that does not parse is warned about and skipped.
loadFromJson(mgr, file) ==
    IF ~file.exists \/ ~file.valid THEN mgr
    ELSE [mgr EXCEPT
            !.modelOverrides =
                IF Has(file.value, "models") THEN file.value.models @@ @ ELSE @,
            !.tokenLimits =
                IF Has(file.value, "tokenLimits") THEN file.value.tokenLimits @@ @ ELSE @]

\* The keys of process.env that give a token limit: prefixed, with a value that
\* is not empty and that parseInt makes a number of.
TokenLimitKeys(env) ==
    {key \in DOMAIN env :
        /\ startsWith(key, TokenLimitPrefix)
        /\ env[key] # ""
        /\ ~parseInt(env[key]).nan}

\* loadFromProcessEnv that applies a model key's value even when it is empty.
loadFromProcessEnv_EmptyApplied(mgr, env) ==
    LET keys == TokenLimitKeys(env)
        limits == [name \in {modelNameOf(key) : key \in keys} |->
                      parseInt(env[CHOOSE key \in keys : modelNameOf(key) = name]).value]
    IN  [mgr EXCEPT
            !.modelOverrides =
                [key \in DOMAIN @ |->
                    IF key \in DOMAIN DEFAULT_MODEL_VALUES /\ Has(env, key)
                    THEN env[key] ELSE @[key]],
            !.tokenLimits = limits @@ @]

\* loadFromProcessEnv: the four model keys, then the token limits (the keys of
\* the model have distinct model names, so their order does not matter).
loadFromProcessEnv(mgr, env) ==
    LET keys == TokenLimitKeys(env)
        limits == [name \in {modelNameOf(key) : key \in keys} |->
                      parseInt(env[CHOOSE key \in keys : modelNameOf(key) = name]).value]
    IN  [mgr EXCEPT
            !.modelOverrides =
                [key \in DOMAIN @ |->
                    IF key \in DOMAIN DEFAULT_MODEL_VALUES /\ Has(env, key) /\ env[key] # ""
                    THEN env[key] ELSE @[key]],
            !.tokenLimits = limits @@ @]

\* initialize that a models.json that does not parse makes throw, before
\* anything is loaded.
initialize_InvalidJsonThrows(mgr, env, fs, workingDirectory) ==
    IF mgr.isInitialized THEN [manager |-> mgr, processEnv |-> env]
    ELSE LET cwd == IF workingDirectory = "" THEN Cwd ELSE workingDirectory
             loaded == loadFromEnv(env, fs[cwd].env)
         IN  IF fs[cwd].json.exists /\ ~fs[cwd].json.valid
             THEN [manager |-> mgr, processEnv |-> loaded]
             ELSE [manager |->
                    [loadFromProcessEnv(loadFromJson(mgr, fs[cwd].json), loaded)
                        EXCEPT !.isInitialized = TRUE],
                   processEnv |-> loaded]

\* initialize(workingDirectory), undefined being "": the manager and
\* process.env afterwards.
initialize(mgr, env, fs, workingDirectory) ==
    IF mgr.isInitialized THEN [manager |-> mgr, processEnv |-> env]
    ELSE LET cwd == IF workingDirectory = "" THEN Cwd ELSE workingDirectory
             loaded == loadFromEnv(env, fs[cwd].env)
         IN  [manager |->
                [loadFromProcessEnv(loadFromJson(mgr, fs[cwd].json), loaded)
                    EXCEPT !.isInitialized = TRUE],
              processEnv |-> loaded]

\* refresh that leaves the tables as they are.
refresh_KeepsTables(mgr, env, fs, workingDirectory) ==
    initialize([mgr EXCEPT !.isInitialized = FALSE], env, fs, workingDirectory)

\* refresh(workingDirectory)
refresh(mgr, env, fs, workingDirectory) ==
    initialize(NewManager, env, fs, workingDirectory)

\* getTokenLimit with a rule of its own for claude-3.
getTokenLimit_Claude200k(mgr, modelName) ==
    IF Has(mgr.tokenLimits, modelName) /\ mgr.tokenLimits[modelName] # 0
    THEN mgr.tokenLimits[modelName]
    ELSE IF includes(modelName, "gpt-4") THEN 128000
    ELSE IF includes(modelName, "claude-3") THEN 200000
    ELSE IF \/ includes(modelName, "gpt-3.5")
            \/ includes(modelName, "mini")
            \/ includes(modelName, "lite")
    THEN 16384
    ELSE 1048576

\* getTokenLimit(modelName) of an initialized manager.
getTokenLimit(mgr, modelName) ==
    IF Has(mgr.tokenLimits, modelName) /\ mgr.tokenLimits[modelName] # 0
    THEN mgr.tokenLimits[modelName]
    ELSE IF includes(modelName, "gpt-4") \/ includes(modelName, "claude-3") THEN 128000
    ELSE IF \/ includes(modelName, "gpt-3.5")
            \/ includes(modelName, "mini")
            \/ includes(modelName, "lite")
    THEN 16384
    ELSE 1048576

\* ------------------------------------------------------------ tokenLimit
DEFAULT_TOKEN_LIMIT == 1048576

\* The names tokenLimit's switch has a case for.
SwitchNames ==
    {"gemini-1.5-pro", "gemini-1.5-flash", "gemini-2.5-pro-preview-05-06",
     "gemini-2.5-pro-preview-06-05", "gemini-2.5-pro", "gemini-2.5-flash-preview-05-20",
     "gemini-2.5-flash", "gemini-2.5-flash-lite", "gemini-2.0-flash",
     "gemini-2.0-flash-preview-image-generation"}

\* tokenLimit(model).  configured is what the try block got: the number
\* modelConfig.getTokenLimit(model) returned (it is never undefined), or
\* ok = FALSE when require('../config/modelConfig.js') threw.
tokenLimit(model, configured) ==
    IF model = "gemini-1.5-pro" THEN 2097152
    ELSE IF model = "gemini-2.0-flash-preview-image-generation" THEN 32000
    ELSE IF model \in SwitchNames THEN 1048576
    ELSE IF configured.ok THEN configured.limit
    ELSE LET lower == toLowerCase(model)
         IN  IF includes(lower, "gpt-4") THEN 128000
             ELSE IF includes(lower, "claude-3") \/ includes(lower, "claude-4") THEN 200000
             ELSE IF includes(lower, "llama-3") THEN 128000
             ELSE IF includes(lower, "mini") \/ includes(lower, "lite") THEN 16384
             ELSE DEFAULT_TOKEN_LIMIT

\* ------------------------------------------------- the configuration's inputs
\* The environment keys the model sets, and the values it gives them.
EnvValues(key) ==
    IF key = "MODEL_TOKEN_LIMIT_GPT_4_1" THEN {"200000"}
    ELSE IF key = "MODEL_TOKEN_LIMIT_CUSTOM_MODEL" THEN {"64000", "128k", "abc", "0", "-5", ""}
    ELSE IF key = "MODEL_TOKEN_LIMIT_GPT_4" THEN {"64000"}
    ELSE {"from-env", ""}

EnvKeys ==
    {"MODEL_TOKEN_LIMIT_GPT_4_1", "MODEL_TOKEN_LIMIT_CUSTOM_MODEL", "MODEL_TOKEN_LIMIT_GPT_4",
     "DEFAULT_GEMINI_MODEL"}

\* What a models.json holds: text that does not parse, or an object.
JsonFiles ==
    {[exists |-> TRUE, valid |-> FALSE],
     [exists |-> TRUE, valid |-> TRUE,
      value |-> [models |-> [DEFAULT_GEMINI_MODEL |-> "from-json"],
                 tokenLimits |-> ("gpt-4.1" :> 150000 @@ "custom-model" :> 50000)]],
     [exists |-> TRUE, valid |-> TRUE,
      value |-> [tokenLimits |-> ("gemini-2.5-pro" :> 500000 @@ "claude-3-custom" :> 90000)]]}

\* What a .env holds.
DotEnvFiles ==
    {[exists |-> TRUE, vars |-> ("MODEL_TOKEN_LIMIT_CUSTOM_MODEL" :> "32000")]}

\* The model names looked up under every environment: names of the switch, of
\* the built-in table, of the files and of the environment keys.
TableNames == {"gemini-2.5-pro", "gpt-4", "gpt-4.1", "custom-model", "claude-3-custom"}

\* The model names looked up for the pattern rules.
LimitNames ==
    TableNames \cup
    {"gpt-3.5-turbo", "gpt-4-anything", "custom-gpt-4-model", "GPT-4-CUSTOM",
     "claude-4-custom", "llama-3-custom", "gpt-3.5-turbo-custom", "custom-mini-model",
     "custom-lite-model", "totally-unknown-model"}

\* ------------------------------------------------------------- the calls
\* process.env[key] = value
SetEnv(key, value) ==
    /\ changes < MaxChanges
    /\ processEnv' = (key :> value) @@ processEnv
    /\ changes' = changes + 1
    /\ UNCHANGED <<files, manager, lookup, mapperVars, responseVars, calls, httpVars,
                   fetchCalls>>

\* models.json is written in dir.
WriteJson(dir, file) ==
    /\ changes < MaxChanges
    /\ files' = [files EXCEPT ![dir].json = file]
    /\ changes' = changes + 1
    /\ UNCHANGED <<processEnv, manager, lookup, mapperVars, responseVars, calls, httpVars,
                   fetchCalls>>

\* .env is written in dir.
WriteDotEnv(dir, file) ==
    /\ changes < MaxChanges
    /\ files' = [files EXCEPT ![dir].env = file]
    /\ changes' = changes + 1
    /\ UNCHANGED <<processEnv, manager, lookup, mapperVars, responseVars, calls, httpVars,
                   fetchCalls>>

\* initialize(workingDirectory)
Initialize(workingDirectory) ==
    LET after == initialize(manager, processEnv, files, workingDirectory)
    IN  /\ manager' = after.manager
        /\ processEnv' = after.processEnv
        /\ lookup' = [op |-> "initialize", workingDirectory |-> workingDirectory]
        /\ UNCHANGED <<files, changes, mapperVars, responseVars, calls, httpVars, fetchCalls>>

\* refresh(workingDirectory)
Refresh(workingDirectory) ==
    LET after == refresh(manager, processEnv, files, workingDirectory)
    IN  /\ manager' = after.manager
        /\ processEnv' = after.processEnv
        /\ lookup' = [op |-> "refresh", workingDirectory |-> workingDirectory]
        /\ UNCHANGED <<files, changes, mapperVars, responseVars, calls, httpVars, fetchCalls>>

\* getTokenLimit(modelName): initialize() first when not initialized.
GetTokenLimit(modelName) ==
    LET after == initialize(manager, processEnv, files, "")
    IN  /\ manager' = after.manager
        /\ processEnv' = after.processEnv
        /\ lookup' = [op |-> "getTokenLimit", modelName |-> modelName,
                      result |-> getTokenLimit(after.manager, modelName)]
        /\ UNCHANGED <<files, changes, mapperVars, responseVars, calls, httpVars, fetchCalls>>

\* tokenLimit(model): a name of the switch returns at once; for another name
\* require() gives modelConfig, whose getTokenLimit is called, or throws.
TokenLimit(model, available) ==
    LET called == available /\ model \notin SwitchNames
        after == IF called THEN initialize(manager, processEnv, files, "")
                 ELSE [manager |-> manager, processEnv |-> processEnv]
        configured == IF available
                      THEN [ok |-> TRUE, limit |-> getTokenLimit(after.manager, model)]
                      ELSE [ok |-> FALSE]
    IN  /\ manager' = after.manager
        /\ processEnv' = after.processEnv
        /\ lookup' = [op |-> "tokenLimit", modelName |-> model, available |-> available,
                      result |-> tokenLimit(model, configured)]
        /\ UNCHANGED <<files, changes, mapperVars, responseVars, calls, httpVars, fetchCalls>>

ConfigInit ==
    MapperIdle /\ ResponseIdle /\ StreamIdle /\ HttpIdle /\ fetchCalls = 0 /\ ConfigIdle

ConfigNext ==
    \/ \E key \in EnvKeys : \E value \in EnvValues(key) : SetEnv(key, value)
    \/ \E dir \in Dirs, file \in JsonFiles : WriteJson(dir, file)
    \/ \E dir \in Dirs, file \in DotEnvFiles : WriteDotEnv(dir, file)
    \/ \E dir \in Dirs \cup {""} : Initialize(dir)
    \/ \E dir \in Dirs \cup {""} : Refresh(dir)
    \/ \E name \in TableNames : GetTokenLimit(name)
    \/ \E name \in TableNames, available \in BOOLEAN : TokenLimit(name, available)

SpecConfig == ConfigInit /\ [][ConfigNext]_vars

\* The lookups of every name, under the built-in table, the files and an
\* override of one name.
PatternNext ==
    \/ \E value \in {"64000", "0"} : SetEnv("MODEL_TOKEN_LIMIT_CUSTOM_MODEL", value)
    \/ \E file \in JsonFiles : WriteJson(Cwd, file)
    \/ Initialize("")
    \/ Refresh("")
    \/ \E name \in LimitNames : GetTokenLimit(name)
    \/ \E name \in LimitNames, available \in BOOLEAN : TokenLimit(name, available)

SpecPatterns == ConfigInit /\ [][PatternNext]_vars

\* ------------------------------------------------- the layers of the table
\* What a layer says of a name: nothing, or a value.
Undefined == [defined |-> FALSE]
Defined(value) == [defined |-> TRUE, value |-> value]

\* The environment layer: the token-limit keys of env whose model name is name.
EnvLayer(env, name) ==
    LET keys == {key \in TokenLimitKeys(env) : modelNameOf(key) = name}
    IN  IF keys = {} THEN Undefined
        ELSE Defined(parseInt(env[CHOOSE key \in keys : TRUE]).value)

\* The file layer: the tokenLimits of a models.json that parses.
JsonLayer(file, name) ==
    IF /\ file.exists /\ file.valid /\ Has(file.value, "tokenLimits")
       /\ Has(file.value.tokenLimits, name)
    THEN Defined(file.value.tokenLimits[name])
    ELSE Undefined

\* The built-in layer.
DefaultLayer(name) ==
    IF Has(DEFAULT_TOKEN_LIMITS, name) THEN Defined(DEFAULT_TOKEN_LIMITS[name]) ELSE Undefined

\* The highest-priority layer that defines name.
Layered(env, file, name) ==
    IF EnvLayer(env, name).defined THEN EnvLayer(env, name)
    ELSE IF JsonLayer(file, name).defined THEN JsonLayer(file, name)
    ELSE DefaultLayer(name)

\* C15: a tokenLimit lookup made when no table is cached yet (the table, when
\* it is built, is built by this lookup from the current directory's
\* models.json and the environment) returns, for a name that a layer defines,
\* the token count (a positive number) of the highest-priority layer defining
\* it: environment over models.json over the built-in table, ahead of every
\* pattern rule.
C15_ExactNameWins ==
    [][(lookup'.op = "tokenLimit" /\ changes' = changes /\ ~manager.isInitialized) =>
            LET layer == Layered(processEnv', files[Cwd].json, lookup'.modelName)
            IN  layer.defined /\ layer.value > 0 => lookup'.result = layer.value]_vars

\* ------------------------------------------------------ the pattern rules
\* The ordered rules, matched without regard to case, first match first.
RuleLimit(name) ==
    LET lower == toLowerCase(name)
    IN  IF includes(lower, "gpt-4") THEN 128000
        ELSE IF includes(lower, "claude-3") \/ includes(lower, "claude-4") THEN 200000
        ELSE IF includes(lower, "llama-3") THEN 128000
        ELSE IF includes(lower, "mini") \/ includes(lower, "lite") THEN 16384
        ELSE 1048576

\* C16: a tokenLimit lookup of a name that the table has no entry for returns
\* what the ordered, case-insensitive rules give: GPT-4 family 128000, Claude
\* 3/4 family 200000, Llama-3 family 128000, mini or lite 16384, and 1048576
\* for a name that matches none.
C16_OrderedRules ==
    lookup.op = "tokenLimit" /\ ~Has(manager.tokenLimits, lookup.modelName) =>
        lookup.result = RuleLimit(lookup.modelName)

\* What getTokenLimit gives a name that has no entry.
ContainsLimit(name) ==
    IF includes(name, "gpt-4") \/ includes(name, "claude-3") THEN 128000
    ELSE IF includes(name, "gpt-3.5") \/ includes(name, "mini") \/ includes(name, "lite")
    THEN 16384
    ELSE 1048576

Built ==
    /\ changes' = changes
    /\ manager'.isInitialized
    /\ ~manager.isInitialized \/ lookup'.op = "refresh"

\* The directory the step builds from.
BuiltDir ==
    IF lookup'.op \in {"initialize", "refresh"} /\ lookup'.workingDirectory # ""
    THEN lookup'.workingDirectory
    ELSE Cwd

\* A numeric value: digits, one at least, after an optional sign.
AllDigits(str) == \A i \in 1..Len(str) : isDigit(charAt(str, i))

Unsigned(str) ==
    IF str # "" /\ charAt(str, 1) \in {"-", "+"} THEN SubSeq(str, 2, Len(str)) ELSE str

IsNumeric(str) == Unsigned(str) # "" /\ AllDigits(Unsigned(str))

RECURSIVE DecimalValue(_)
DecimalValue(digits) ==
    IF digits = "" THEN 0
    ELSE 10 * DecimalValue(SubSeq(digits, 1, Len(digits) - 1))
            + digitValue(charAt(digits, Len(digits)))

NumberOf(str) ==
    IF str # "" /\ charAt(str, 1) = "-" THEN 0 - DecimalValue(Unsigned(str))
    ELSE DecimalValue(Unsigned(str))

\* The model name a key MODEL_TOKEN_LIMIT_<REST> is about: <REST> in lower
\* case, its underscores made hyphens.
NameOfKey(key) ==
    underscoresToHyphens(toLowerCase(SubSeq(key, Len("MODEL_TOKEN_LIMIT_") + 1, Len(key))))

\* What the layers below the environment say of a name.
LowerLayers(file, name) ==
    IF JsonLayer(file, name).defined THEN JsonLayer(file, name) ELSE DefaultLayer(name)

\* C18: when the table is built, every key MODEL_TOKEN_LIMIT_<REST> of the
\* environment with a numeric value sets the entry of the name derived from
\* <REST> to that number, and a key whose value is not numeric is ignored:
\* the entry of its name is what models.json or the built-in table says, or
\* there is none.
C18_EnvironmentKeys ==
    [][Built =>
        \A key \in {k \in DOMAIN processEnv' : startsWith(k, "MODEL_TOKEN_LIMIT_")} :
            LET name == NameOfKey(key)
                value == processEnv'[key]
                table == manager'.tokenLimits
                lower == LowerLayers(files[BuiltDir].json, name)
            IN  IF IsNumeric(value)
                THEN Has(table, name) /\ table[name] = NumberOf(value)
                ELSE IF lower.defined
                     THEN Has(table, name) /\ table[name] = lower.value
                     ELSE ~Has(table, name)]_vars

\* The cached table is the one an initialize would build from the environment
\* and the files as they are now.
UpToDate ==
    /\ manager.isInitialized
    /\ \E dir \in Dirs : manager = initialize(NewManager, processEnv, files, dir).manager

\* C19: after an initialize under MODEL_TOKEN_LIMIT_GPT_4_1=200000,
\* getTokenLimit('gpt-4.1') is 200000, and after one under
\* MODEL_TOKEN_LIMIT_CUSTOM_MODEL=64000, getTokenLimit('custom-model') is 64000.
C19_OverriddenValue ==
    lookup.op = "getTokenLimit" /\ UpToDate =>
        /\ /\ Has(processEnv, "MODEL_TOKEN_LIMIT_GPT_4_1")
           /\ processEnv["MODEL_TOKEN_LIMIT_GPT_4_1"] = "200000"
           /\ lookup.modelName = "gpt-4.1"
           => lookup.result = 200000
        /\ /\ Has(processEnv, "MODEL_TOKEN_LIMIT_CUSTOM_MODEL")
           /\ processEnv["MODEL_TOKEN_LIMIT_CUSTOM_MODEL"] = "64000"
           /\ lookup.modelName = "custom-model"
           => lookup.result = 64000

\* ------------------------------------------------------ the cached table
\* The names a models.json defines.
JsonNames(file) ==
    IF file.exists /\ file.valid /\ Has(file.value, "tokenLimits")
    THEN DOMAIN file.value.tokenLimits
    ELSE {}

\* table is the built-in defaults overlaid with the file and then with the
\* environment, and holds nothing else.
TableIs(table, env, file) ==
    LET keys == TokenLimitKeys(env)
        nameOf == [key \in keys |-> modelNameOf(key)]
        envNames == {nameOf[key] : key \in keys}
        envValue == [name \in envNames |->
                        parseInt(env[CHOOSE key \in keys : nameOf[key] = name]).value]
    IN  /\ DOMAIN table = DOMAIN DEFAULT_TOKEN_LIMITS \cup JsonNames(file) \cup envNames
        /\ \A name \in DOMAIN table :
                table[name] = IF name \in envNames THEN envValue[name]
                              ELSE LowerLayers(file, name).value

\* models is the default model names overlaid with the file's and then with
\* the environment's.
ModelsAre(models, env, file) ==
    /\ DOMAIN models = DOMAIN DEFAULT_MODEL_VALUES
    /\ \A key \in DOMAIN models :
            models[key] =
                IF Has(env, key) /\ env[key] # "" THEN env[key]
                ELSE IF /\ file.exists /\ file.valid /\ Has(file.value, "models")
                        /\ Has(file.value.models, key)
                THEN file.value.models[key]
                ELSE DEFAULT_MODEL_VALUES[key]

\* The step is a refresh.
Refreshed == lookup'.op = "refresh" /\ changes' = changes

\* Two lookups of one name, one after the other with nothing but changes of
\* the environment and of the files in between.
SameLookup ==
    /\ lookup.op \in {"getTokenLimit", "tokenLimit"}
    /\ lookup'.op = lookup.op
    /\ lookup'.modelName = lookup.modelName
    /\ lookup.op = "tokenLimit" => lookup'.available = lookup.available

\* What holds of every step of a cached table.
CachedStep ==
    /\ (lookup'.op \in {"getTokenLimit", "initialize", "refresh"} /\ lookup' # lookup)
            => manager'.isInitialized
    /\ (manager.isInitialized /\ ~Refreshed) => manager' = manager
    /\ SameLookup => lookup'.result = lookup.result
    /\ Built =>
            /\ TableIs(manager'.tokenLimits, processEnv', files[BuiltDir].json)
            /\ ModelsAre(manager'.modelOverrides, processEnv', files[BuiltDir].json)

\* C20: nothing is loaded before the first lookup or initialize, which builds
\* the table; once built, the table changes by no step but a refresh, whatever
\* the changes of the environment and of the files and whatever directory a
\* later initialize names, and a repeated lookup returns the same value; and
\* every build, a refresh(dir) as well, leaves the built-in defaults overlaid
\* with dir's models.json and then the environment of that moment, and no
\* other entry.
C20_CachedUntilRefresh ==
    /\ [](~manager.isInitialized => manager = NewManager)
    /\ [][CachedStep]_vars

\* custom-model was looked up before its override was set: the lookup still
\* gives the value of the table built then.
C20_Witness ==
    /\ manager.isInitialized
    /\ lookup.op = "getTokenLimit"
    /\ lookup.modelName = "custom-model"
    /\ Has(processEnv, "MODEL_TOKEN_LIMIT_CUSTOM_MODEL")
    /\ processEnv["MODEL_TOKEN_LIMIT_CUSTOM_MODEL"] = "64000"
    /\ lookup.result = 1048576

\* ------------------------------------------------------------ model names
\* getModel(modelKey) of an initialized manager.
getModel(mgr, modelKey) == mgr.modelOverrides[modelKey]

\* The keys getModel takes.
ModelKeys == DOMAIN DEFAULT_MODEL_VALUES

\* getModel(modelKey): initialize() first when not initialized.
GetModel(modelKey) ==
    LET after == initialize(manager, processEnv, files, "")
    IN  /\ manager' = after.manager
        /\ processEnv' = after.processEnv
        /\ lookup' = [op |-> "getModel", modelKey |-> modelKey,
                      result |-> getModel(after.manager, modelKey)]
        /\ UNCHANGED <<files, changes, mapperVars, responseVars, calls, httpVars, fetchCalls>>

\* The model names under changes of the model keys, of one token limit and of
\* the files.
ModelsNext ==
    \/ \E key \in {"DEFAULT_GEMINI_MODEL", "DEFAULT_GEMINI_FLASH_MODEL"} :
            \E value \in EnvValues(key) : SetEnv(key, value)
    \/ SetEnv("MODEL_TOKEN_LIMIT_CUSTOM_MODEL", "64000")
    \/ \E dir \in Dirs, file \in JsonFiles : WriteJson(dir, file)
    \/ \E dir \in Dirs \cup {""} : Initialize(dir)
    \/ \E dir \in Dirs \cup {""} : Refresh(dir)
    \/ \E key \in ModelKeys : GetModel(key)

SpecModels == ConfigInit /\ [][ModelsNext]_vars

\* The manager is what a build from dir would make of the environment and the
\* files as they are now.
UpToDateIn(dir) ==
    /\ manager.isInitialized
    /\ manager = initialize(NewManager, processEnv, files, dir).manager

\* The model name the layers give a key: the environment's when set and not
\* empty, else the file's when it defines one, else the built-in one.
ModelLayer(env, file, key) ==
    IF Has(env, key) /\ env[key] # "" THEN env[key]
    ELSE IF /\ file.exists /\ file.valid /\ Has(file.value, "models")
            /\ Has(file.value.models, key)
    THEN file.value.models[key]
    ELSE DEFAULT_MODEL_VALUES[key]

\* C21: getModel of a manager built from a directory returns, for each of the
\* four keys, the environment's value when it is set and not empty, else the
\* value of the directory's models.json when it defines one, else the built-in
\* default.
C21_ModelLayers ==
    \A dir \in Dirs :
        lookup.op = "getModel" /\ UpToDateIn(dir) =>
            lookup.result = ModelLayer(processEnv, files[dir].json, lookup.modelKey)

\* The environment and the file both name the model, and the environment's
\* name is returned.
C21_Witness ==
    /\ lookup.op = "getModel"
    /\ lookup.modelKey = "DEFAULT_GEMINI_MODEL"
    /\ UpToDateIn(Cwd)
    /\ ModelLayer(<<>>, files[Cwd].json, "DEFAULT_GEMINI_MODEL") = "from-json"
    /\ lookup.result = "from-env"

\* The step is a call that has to build the table.
Called ==
    /\ changes' = changes
    /\ lookup' # lookup
    /\ lookup'.op \in {"initialize", "refresh", "getModel", "getTokenLimit"}
    /\ ~manager.isInitialized \/ lookup'.op = "refresh"

NoJson == [exists |-> FALSE]

\* C22: a build from a directory whose models.json does not parse completes:
\* the manager is initialized, and its model names and token limits are the
\* built-in defaults overlaid with the environment alone.
C22_InvalidJson ==
    [][(/\ Called
        /\ files[BuiltDir].json.exists
        /\ ~files[BuiltDir].json.valid) =>
            /\ manager'.isInitialized
            /\ ModelsAre(manager'.modelOverrides, processEnv', NoJson)
            /\ TableIs(manager'.tokenLimits, processEnv', NoJson)]_vars

\* A manager built from a directory whose models.json does not parse, under
\* an override.
C22_Witness ==
    /\ lookup.op = "initialize"
    /\ UpToDateIn(Cwd)
    /\ files[Cwd].json.exists /\ ~files[Cwd].json.valid
    /\ Has(manager.tokenLimits, "custom-model")
    /\ manager.tokenLimits["custom-model"] = 64000

\* ------------------------------------------- createContentGeneratorConfig
AuthTypes ==
    {"oauth-personal", "gemini-api-key", "vertex-ai", "cloud-shell", "openai-api-key",
     "openai-compatible"}

ProviderTypes == {"gemini", "openai", "openai-compatible"}

\* process.env.KEY || undefined: "" when the variable is unset or empty.
envOr(env, key) == IF Has(env, key) THEN env[key] ELSE ""

\* DEFAULT_GEMINI_MODEL of models.ts, as the module computes it when nothing
\* overrides it.
DefaultGeminiModel == DEFAULT_MODEL_VALUES["DEFAULT_GEMINI_MODEL"]

\* createContentGeneratorConfig with an OpenAI-compatible mode that asks for
\* the key alone and defaults the base URL.
createContentGeneratorConfig_KeyOnly(env, config, authType) ==
    LET openaiApiKey == envOr(env, "OPENAI_API_KEY")
        openaiBaseUrl == envOr(env, "OPENAI_BASE_URL")
        base == [provider |-> "gemini",
                 model |-> IF config.model # "" THEN config.model ELSE DefaultGeminiModel]
                    @@ Opt(authType # "", [authType |-> authType])
                    @@ Opt(Has(config, "proxy"), [proxy |-> config.proxy])
    IN  IF authType = "openai-compatible" /\ openaiApiKey # ""
        THEN [provider |-> "openai-compatible", apiKey |-> openaiApiKey,
              baseUrl |-> IF openaiBaseUrl # "" THEN openaiBaseUrl
                          ELSE "https://api.openai.com/v1"] @@ base
        ELSE base

\* createContentGeneratorConfig(config, authType), authType undefined being
\* "" and config giving getModel() and getProxy().  A property assigned
\* undefined is an absent field.  getEffectiveModel's promise is dropped.
createContentGeneratorConfig(env, config, authType) ==
    LET geminiApiKey == envOr(env, "GEMINI_API_KEY")
        googleApiKey == envOr(env, "GOOGLE_API_KEY")
        googleCloudProject == envOr(env, "GOOGLE_CLOUD_PROJECT")
        googleCloudLocation == envOr(env, "GOOGLE_CLOUD_LOCATION")
        openaiApiKey == envOr(env, "OPENAI_API_KEY")
        openaiBaseUrl == envOr(env, "OPENAI_BASE_URL")
        base == [provider |-> "gemini",
                 model |-> IF config.model # "" THEN config.model ELSE DefaultGeminiModel]
                    @@ Opt(authType # "", [authType |-> authType])
                    @@ Opt(Has(config, "proxy"), [proxy |-> config.proxy])
    IN  IF authType \in {"oauth-personal", "cloud-shell"} THEN base
        ELSE IF authType = "gemini-api-key" /\ geminiApiKey # ""
        THEN [apiKey |-> geminiApiKey, vertexai |-> FALSE] @@ base
        ELSE IF /\ authType = "vertex-ai"
                /\ googleApiKey # "" \/ (googleCloudProject # "" /\ googleCloudLocation # "")
        THEN Opt(googleApiKey # "", [apiKey |-> googleApiKey]) @@ [vertexai |-> TRUE] @@ base
        ELSE IF authType = "openai-api-key" /\ openaiApiKey # ""
        THEN [provider |-> "openai", apiKey |-> openaiApiKey,
              baseUrl |-> IF openaiBaseUrl # "" THEN openaiBaseUrl
                          ELSE "https://api.openai.com/v1"] @@ base
        ELSE IF authType = "openai-compatible" /\ openaiApiKey # "" /\ openaiBaseUrl # ""
        THEN [provider |-> "openai-compatible", apiKey |-> openaiApiKey,
              baseUrl |-> openaiBaseUrl] @@ base
        ELSE base

\* ------------------------------------------------- createContentGenerator
\* httpOptions.headers of createContentGenerator.
UserAgent == "GeminiCLI/version (platform; arch)"

\* ${value} of a property that may be undefined.
template(o, f) == IF Has(o, f) THEN o[f] ELSE "undefined"

\* createContentGenerator with the Google modes tested before the OpenAI ones.
createContentGenerator_GoogleFirst(config) ==
    LET authType == IF Has(config, "authType") THEN config.authType ELSE ""
        provider == IF Has(config, "provider") THEN config.provider ELSE ""
    IN  IF authType \in {"oauth-personal", "cloud-shell"}
        THEN [state |-> "delegated", to |-> "createCodeAssistContentGenerator"]
        ELSE IF authType \in {"gemini-api-key", "vertex-ai"}
        THEN [state |-> "delegated", to |-> "GoogleGenAI"]
        ELSE IF \/ provider \in {"openai", "openai-compatible"}
                \/ authType \in {"openai-api-key", "openai-compatible"}
        THEN [to |-> "OpenAIContentGenerator"] @@ construct(config, "User-Agent" :> UserAgent)
        ELSE [state |-> "threw", to |-> "none",
              message |-> "Error creating contentGenerator: Unsupported authType/provider: "
                            \o template(config, "authType") \o "/"
                            \o template(config, "provider")]

\* createContentGenerator(config, gcConfig, sessionId): what the promise
\* settles with.  The code-assist generator and GoogleGenAI are made by their
\* own modules.
createContentGenerator(config) ==
    LET authType == IF Has(config, "authType") THEN config.authType ELSE ""
        provider == IF Has(config, "provider") THEN config.provider ELSE ""
    IN  IF \/ provider \in {"openai", "openai-compatible"}
           \/ authType \in {"openai-api-key", "openai-compatible"}
        THEN [to |-> "OpenAIContentGenerator"] @@ construct(config, "User-Agent" :> UserAgent)
        ELSE IF authType \in {"oauth-personal", "cloud-shell"}
        THEN [state |-> "delegated", to |-> "createCodeAssistContentGenerator"]
        ELSE IF authType \in {"gemini-api-key", "vertex-ai"}
        THEN [state |-> "delegated", to |-> "GoogleGenAI"]
        ELSE [state |-> "threw", to |-> "none",
              message |-> "Error creating contentGenerator: Unsupported authType/provider: "
                            \o template(config, "authType") \o "/"
                            \o template(config, "provider")]

\* ------------------------------------------------------ the factory's inputs
\* process.env when the process starts.
FactoryEnvs ==
    {k @@ u @@ g @@ a @@ p @@ l :
        k \in OptField("OPENAI_API_KEY", {"", "sk-test"}),
        u \in OptField("OPENAI_BASE_URL", {"", "http://localhost:11434/v1"}),
        g \in OptField("GEMINI_API_KEY", {"gemini-key"}),
        a \in OptField("GOOGLE_API_KEY", {"google-key"}),
        p \in OptField("GOOGLE_CLOUD_PROJECT", {"project"}),
        l \in OptField("GOOGLE_CLOUD_LOCATION", {"location"})}

\* config.getModel() and config.getProxy().
CliConfigs ==
    {[model |-> m] @@ x : m \in {"", "gpt-4"}, x \in OptField("proxy", {"http://proxy:3128"})}

\* A ContentGeneratorConfig that the caller wrote.
WrittenConfigs ==
    {[model |-> "gpt-4"] @@ p @@ a @@ k @@ u :
        p \in OptField("provider", ProviderTypes),
        a \in OptField("authType", AuthTypes),
        k \in OptField("apiKey", {"", "test-api-key"}),
        u \in OptField("baseUrl", {"http://localhost:8080/v1"})}

\* config = createContentGeneratorConfig(cliConfig, authType)
CreateContentGeneratorConfig(cliConfig, authType) ==
    /\ generator.state = "none"
    /\ lookup' = [op |-> "createContentGeneratorConfig", authType |-> authType,
                  result |-> createContentGeneratorConfig(processEnv, cliConfig, authType)]
    /\ UNCHANGED <<processEnv, files, manager, changes, mapperVars, responseVars, calls,
                   httpVars, fetchCalls>>

\* await createContentGenerator(config, gcConfig, sessionId)
CreateContentGenerator(config) ==
    /\ generator.state = "none"
    /\ generator' = [given |-> config] @@ createContentGenerator(config)
    /\ UNCHANGED <<configVars, hpc, request, httpResponse, outcome, mapperVars, responseVars,
                   calls, fetchCalls>>

FactoryInit ==
    /\ MapperIdle /\ ResponseIdle /\ StreamIdle /\ HttpIdle /\ fetchCalls = 0
    /\ processEnv \in FactoryEnvs
    /\ files = [d \in Dirs |-> NoFiles]
    /\ manager = NewManager
    /\ lookup = [op |-> "none"]
    /\ changes = 0

\* The caller resolves a config and hands it to the factory, or hands the
\* factory a config of its own.
FactoryNext ==
    \/ \E cliConfig \in CliConfigs, authType \in AuthTypes \cup {""} :
            CreateContentGeneratorConfig(cliConfig, authType)
    \/ lookup.op = "createContentGeneratorConfig" /\ CreateContentGenerator(lookup.result)
    \/ lookup.op = "none" /\ \E config \in WrittenConfigs : CreateContentGenerator(config)

SpecFactory == FactoryInit /\ [][FactoryNext]_vars

\* A variable of the environment is present: set, and not empty.
Present(env, key) == Has(env, key) /\ env[key] # ""

OfficialEndpoint == "https://api.openai.com/v1"

\* C23: for the OpenAI-compatible mode createContentGeneratorConfig gives
\* provider openai-compatible, with the key and the URL of the environment,
\* exactly when OPENAI_API_KEY and OPENAI_BASE_URL are both present, and
\* otherwise provider gemini with no apiKey and no baseUrl; for the OpenAI-key
\* mode with a key present it gives provider openai, the key, and
\* OPENAI_BASE_URL when present, else https://api.openai.com/v1.
C23_OpenAIModes ==
    lookup.op = "createContentGeneratorConfig" =>
        LET config == lookup.result
        IN  /\ lookup.authType = "openai-compatible" =>
                IF Present(processEnv, "OPENAI_API_KEY") /\ Present(processEnv, "OPENAI_BASE_URL")
                THEN /\ config.provider = "openai-compatible"
                     /\ Has(config, "apiKey") /\ config.apiKey = processEnv["OPENAI_API_KEY"]
                     /\ Has(config, "baseUrl") /\ config.baseUrl = processEnv["OPENAI_BASE_URL"]
                ELSE /\ config.provider = "gemini"
                     /\ ~Has(config, "apiKey")
                     /\ ~Has(config, "baseUrl")
            /\ lookup.authType # "openai-compatible" => config.provider # "openai-compatible"
            /\ lookup.authType = "openai-api-key" /\ Present(processEnv, "OPENAI_API_KEY") =>
                /\ config.provider = "openai"
                /\ Has(config, "apiKey") /\ config.apiKey = processEnv["OPENAI_API_KEY"]
                /\ Has(config, "baseUrl")
                /\ config.baseUrl = IF Present(processEnv, "OPENAI_BASE_URL")
                                    THEN processEnv["OPENAI_BASE_URL"]
                                    ELSE OfficialEndpoint

\* The OpenAI-compatible mode was asked for with a key and no base URL, and
\* the config is the native default.
C23_Witness ==
    /\ lookup.op = "createContentGeneratorConfig"
    /\ lookup.authType = "openai-compatible"
    /\ Present(processEnv, "OPENAI_API_KEY")
    /\ ~Present(processEnv, "OPENAI_BASE_URL")
    /\ lookup.result.provider = "gemini"
    /\ ~Has(lookup.result, "apiKey")

\* The OpenAI family of providers.
OpenAIFamily == {"openai", "openai-compatible"}

\* What the claim asks of a config; supplied is the base URL the config was
\* given, "" when it was given none.
ValidConfig(config, supplied) ==
    /\ (Has(config, "provider") /\ config.provider \in OpenAIFamily) =>
            Has(config, "apiKey") /\ config.apiKey # ""
    /\ (Has(config, "provider") /\ config.provider = "openai" /\ supplied = "") =>
            Has(config, "baseUrl") /\ config.baseUrl = OfficialEndpoint
    /\ (Has(config, "provider") /\ config.provider = "openai-compatible") =>
            /\ supplied # ""
            /\ Has(config, "baseUrl") /\ config.baseUrl = supplied

\* C24: every config that createContentGeneratorConfig produces, and every
\* config that a constructed OpenAI generator holds, has a non-empty apiKey
\* when its provider is openai or openai-compatible, the official endpoint as
\* baseUrl when its provider is openai and no base URL was supplied, and a
\* supplied baseUrl when its provider is openai-compatible.
C24_ConfigInvariant ==
    /\ lookup.op = "createContentGeneratorConfig" =>
            ValidConfig(lookup.result, envOr(processEnv, "OPENAI_BASE_URL"))
    /\ (generator.state = "constructed" /\ generator.to = "OpenAIContentGenerator") =>
            ValidConfig(generator.config,
                        IF Has(generator.given, "baseUrl") THEN generator.given.baseUrl ELSE "")

\* authType and provider of a config, "" when undefined.
AuthOf(config) == IF Has(config, "authType") THEN config.authType ELSE ""
ProviderOf(config) == IF Has(config, "provider") THEN config.provider ELSE ""

\* The text names the value, or says undefined for one that is not given.
Names(text, value) == includes(text, IF value = "" THEN "undefined" ELSE value)

\* C25: createContentGenerator hands a config whose provider or authType is of
\* the OpenAI family to the OpenAI generator's constructor, whatever the rest
\* says; else a config with Google OAuth or cloud shell to the code-assist
\* generator; else one with the Gemini key or Vertex to the native generator;
\* and fails for every other config, with a message that names the authType
\* and the provider, returning no generator.
C25_Dispatch ==
    generator.state # "none" =>
        LET config == generator.given
        IN  IF \/ ProviderOf(config) \in OpenAIFamily
               \/ AuthOf(config) \in {"openai-api-key", "openai-compatible"}
            THEN /\ generator.to = "OpenAIContentGenerator"
                 /\ generator.state \in {"constructed", "threw"}
                 /\ generator.state = "threw" =>
                        generator.message = "OpenAI API key is required"
            ELSE IF AuthOf(config) \in {"oauth-personal", "cloud-shell"}
            THEN generator.state = "delegated"
                    /\ generator.to = "createCodeAssistContentGenerator"
            ELSE IF AuthOf(config) \in {"gemini-api-key", "vertex-ai"}
            THEN generator.state = "delegated" /\ generator.to = "GoogleGenAI"
            ELSE /\ generator.state = "threw"
                 /\ generator.to = "none"
                 /\ Names(generator.message, AuthOf(config))
                 /\ Names(generator.message, ProviderOf(config))

\* A config with provider openai and Google OAuth went to the OpenAI generator.
C25_Witness ==
    /\ generator.state = "constructed"
    /\ generator.to = "OpenAIContentGenerator"
    /\ ProviderOf(generator.given) = "openai"
    /\ AuthOf(generator.given) = "oauth-personal"

\* A config with no authType and provider gemini was refused.
C25_Refused ==
    /\ generator.state = "threw"
    /\ generator.to = "none"
    /\ AuthOf(generator.given) = ""
    /\ ProviderOf(generator.given) = "gemini"

\* The request of the call failed: fetch rejected, or the response is not ok.
RequestFailed == Has(httpResponse, "rejected") \/ ~httpResponse.ok

\* C26: a call of generateContent, embedContent, generateUniversalContent or
\* generateUniversalEmbedding, and a generateContentStream once iterated, has
\* issued exactly one request from the moment it calls fetch, whatever
\* becomes of it; a settled call issues no further request, and when its
\* request failed the call has thrown.
C26_NoRetry ==
    /\ [](/\ hpc \in {"idle", "created"} => fetchCalls = 0
          /\ hpc \in {"awaiting", "settled"} => fetchCalls = 1
          /\ (hpc = "settled" /\ RequestFailed) => outcome.kind = "threw")
    /\ [][hpc = "settled" => fetchCalls' = fetchCalls /\ outcome' = outcome]_vars

\* An iterated generateContentStream whose fetch was rejected.
C26_Witness ==
    /\ hpc = "settled"
    /\ request.op = "generateContentStream"
    /\ Has(httpResponse, "rejected")
    /\ fetchCalls = 1
    /\ outcome.kind = "threw"

\* C27: every value of the table of token limits is a positive integer, and
\* so is every value a lookup of a token limit returns.
C27_PositiveLimits ==
    /\ \A name \in DOMAIN manager.tokenLimits :
            manager.tokenLimits[name] \in Nat \ {0}
    /\ lookup.op \in {"getTokenLimit", "tokenLimit"} => lookup.result \in Nat \ {0}

\* ------------------------------------------------------ calls in flight
\* Two calls in flight at once, on a generator that has been constructed.
TogetherSeqs == {<<"hel", "lo">>, <<"lo", "done">>}

TogetherConfig ==
    [provider |-> "openai", model |-> "gpt-4", apiKey |-> "test-api-key",
     baseUrl |-> "https://api.openai.com/v1"]

TogetherInit ==
    /\ MapperIdle /\ ResponseIdle /\ fetchCalls = 0 /\ ConfigIdle
    /\ generator = [given |-> TogetherConfig] @@ construct(TogetherConfig, <<>>)
    /\ hpc = "idle" /\ request = <<>> /\ httpResponse = <<>> /\ outcome = <<>>
    /\ calls = [c \in CallIds |-> IdleCall]

TogetherNext ==
    \E c \in CallIds :
        \/ GenerateContentStream(c)
        \/ StartIteration(c)
        \/ FetchRespondsWith(c, TogetherSeqs)
        \/ ReadValue(c)
        \/ ReadDone(c)
        \/ ProcessLine(c)
        \/ ConsumerNext(c)

SpecTogether == TogetherInit /\ [][TogetherNext]_vars

\* ------------------------------------------------------- frames that parse
\* The frames among frames whose payload JSON.parse accepts, in order.
RECURSIVE ParsedFrames(_)
ParsedFrames(frames) ==
    IF frames = <<>> THEN <<>>
    ELSE (IF frames[1] \in {"hel", "lo", "finish", "nochoice", "object"}
          THEN <<frames[1]>> ELSE <<>>)
         \o ParsedFrames(Tail(frames))

\* The delta text of a frame, "" when it has none.
DeltaOf(kind) == IF kind = "hel" THEN "Hel" ELSE IF kind = "lo" THEN "lo" ELSE ""

\* partial is the partial response of a frame of this kind: one candidate with
\* the frame's delta text alone, and the frame's index and finish_reason when
\* it has them.
PartialOf(partial, kind) ==
    /\ Len(partial.candidates) = 1
    /\ partial.candidates[1].content.parts = <<[text |-> DeltaOf(kind)]>>
    /\ kind \in {"hel", "lo", "finish"} => partial.candidates[1].index = 0
    /\ kind = "finish" =>
            /\ Has(partial.candidates[1], "finishReason")
            /\ partial.candidates[1].finishReason = "stop"

\* C28: of a stream whose frames all end with a newline, the partial responses
\* emitted are those of the frames whose payload parses, one for each and in
\* order, each with its frame's delta text alone ("" when it has none) and its
\* frame's index and finishReason; no such frame makes the sequence fail and
\* none is passed over.
C28_OnePerParsedFrame ==
    \A c \in CallIds :
        LET call == calls[c]
            expected == ParsedFrames(call.sent)
        IN  Streaming(call) =>
                /\ call.pc # "failed"
                /\ Len(call.emitted) <= Len(expected)
                /\ \A i \in 1..Len(call.emitted) : PartialOf(call.emitted[i], expected[i])
                /\ call.pc = "done" => Len(call.emitted) = Len(expected)

\* C29: with two streaming calls in flight on one generator, their reads
\* interleaved in any order, each call emits what it emits alone on its own
\* bytes, and ends as it ends alone; its buffer holds its own unterminated
\* bytes and nothing of the other call's; a step of one call leaves the other
\* call as it is; and no step changes the generator or its config.
C29_NoInterference ==
    /\ [](\A c \in CallIds :
            LET call == calls[c]
                one == oneChunk(call.stream)
            IN  call.reader # "none" =>
                    /\ IsPrefix(call.emitted, one.emitted)
                    /\ call.pc = "done" => call.emitted = one.emitted /\ one.pc = "done"
                    /\ call.pc \in {"reading", "lines", "yielded"} =>
                            call.buffer = Unterminated(SubSeq(call.stream, 1, call.pos)))
    /\ [][\E c \in CallIds : \A d \in CallIds \ {c} : calls'[d] = calls[d]]_vars
    /\ [][generator' = generator]_vars

\* One call has ended with its two partial responses while the other is part
\* way through a frame.
C29_Witness ==
    /\ calls[1].pc = "done"
    /\ calls[1].emitted = <<Partial("Hel"), Partial("lo")>>
    /\ calls[2].pc = "reading"
    /\ calls[2].sent = <<"lo", "done">>
    /\ calls[2].buffer # <<>>
    /\ calls[2].emitted = <<>>

\* ------------------------------------------------ the end of the stream
\* The server's last frame is a data frame and the stream ends before its
\* newline.
CutInLastFrame(call) ==
    /\ call.reader # "none"
    /\ call.sent # <<>>
    /\ Line(call.sent[Len(call.sent)]) # <<>>
    /\ call.stream = SubSeq(Bytes(call.sent), 1, Len(Bytes(call.sent)) - 1)

\* The frames of the call that came with their newline.
Terminated(call) == SubSeq(call.sent, 1, Len(call.sent) - 1)

\* C30: when the stream ends inside a data frame, with no newline after it,
\* the frame is neither parsed nor emitted: the consumer receives what it
\* receives of the frames before it, the sequence ends as it ends on those
\* frames alone (normally, when they end it normally), and at the end of the
\* stream the frame is still in the buffer.
C30_UnterminatedFrameDropped ==
    \A c \in CallIds :
        LET call == calls[c]
            before == oneChunk(Bytes(Terminated(call)))
        IN  CutInLastFrame(call) =>
                /\ IsPrefix(call.emitted, before.emitted)
                /\ call.pc = "done" => call.emitted = before.emitted /\ before.pc = "done"
                /\ call.pc = "failed" =>
                        call.error = "read failed" \/ (before.pc = "failed" /\ call.error = before.error)
                /\ call.pos = Len(call.stream) /\ call.pc \in {"reading", "done"} =>
                        call.buffer = Line(call.sent[Len(call.sent)])

\* The stream ended inside the second text frame: the call is done with the
\* first partial response alone, the second frame in its buffer.
C30_Witness ==
    /\ calls[1].sent = <<"hel", "lo">>
    /\ CutInLastFrame(calls[1])
    /\ calls[1].pc = "done"
    /\ calls[1].pos = Len(calls[1].stream)
    /\ calls[1].buffer = Line("lo")
    /\ calls[1].emitted = <<Partial("Hel")>>
====
